--------------------------- MODULE NtpdLoopProofs ---------------------------
(***************************************************************************)
(* The invariants of the main loop, proved for every number of tasks,      *)
(* buffers, packets and runs.  NothingStranded and AlarmsServedOnce are not*)
(* inductive: the invariant adds where a buffer can be in hand and where an*)
(* alarm can be pending.                                                   *)
(***************************************************************************)
EXTENDS NtpdLoop, TLAPS

(* A buffer is in hand only while its packet is handled.                   *)
InHandPlace == inhand <=> pc = "handle"

(* The flag is up only between select() and the check after it, was_alarmed*)
(* is set only between that check and timer().                             *)
AlarmPlaces ==
    /\ alarm_flag => pc \in {"scan", "alarm"}
    /\ was_alarmed <=> pc = "timer"

(* The type invariant in two halves.                                       *)
Flags ==
    /\ running \in BOOLEAN /\ signalled \in BOOLEAN /\ asked \in BOOLEAN
    /\ alarm_flag \in BOOLEAN /\ was_alarmed \in BOOLEAN /\ inhand \in BOOLEAN
    /\ fdset \in BOOLEAN /\ lookup \in BOOLEAN /\ noticed \in BOOLEAN

Values ==
    /\ daemon \subseteq Tasks /\ pc \in Places
    /\ socket \in Nat /\ during \in 0 .. MaxDuring /\ seconds \in Int
    /\ freeList \in Nat /\ fullList \in Nat /\ created \in Nat
    /\ freeCount \in Int /\ fullCount \in Int
    /\ totalCount \in Nat /\ buffer_shortfall \in Nat /\ runs \in Nat

IInv ==
    /\ TypeOK /\ OneDaemon /\ PoolConserved /\ NothingStranded /\ AlarmsServedOnce
    /\ InHandPlace /\ AlarmPlaces

(* The start satisfies the invariant.                                      *)
LEMMA InitInv == Init => IInv
  <1> SUFFICES ASSUME Init
               PROVE  IInv
    OBVIOUS
  <1>1. Flags
    BY DEF Init, Flags
  <1>2. Values
    BY LoopAssumption DEF Init, Values, Places
  <1>3. TypeOK
    BY <1>1, <1>2 DEF TypeOK, Flags, Values
  <1>4. OneDaemon /\ PoolConserved /\ NothingStranded
    BY DEF Init, OneDaemon, PoolConserved, NothingStranded
  <1>5. AlarmsServedOnce /\ InHandPlace /\ AlarmPlaces
    BY DEF Init, AlarmsServedOnce, InHandPlace, AlarmPlaces
  <1>6. QED
    BY <1>3, <1>4, <1>5 DEF IInv

(* Every step keeps the flags Boolean.                                     *)
LEMMA FlagStep == TypeOK /\ [Next]_vars => Flags'
  <1> SUFFICES ASSUME TypeOK, [Next]_vars
               PROVE  Flags'
    OBVIOUS
  <1> USE LoopAssumption DEF Flags, TypeOK
  <1>1. ASSUME NEW t \in Tasks, Run(t) PROVE Flags'
    BY <1>1, Zenon DEF Run, MayRun, control, clock, net, pool, workers
  <1>2. ASSUME NEW t \in Tasks, Stop(t) PROVE Flags'
    BY <1>2, Zenon DEF Stop, control, clock, net, pool, workers
  <1>3. ASSUME Arrive PROVE Flags'
    BY <1>3, Zenon DEF Arrive, control, clock, net, pool, workers
  <1>4. ASSUME BootFails PROVE Flags'
    BY <1>4, Zenon DEF BootFails, Goto, control, clock, net, pool, workers
  <1>5. ASSUME Boot PROVE Flags'
    BY <1>5, Zenon DEF Boot, Goto, AskWorker, control, clock, net, pool, workers
  <1>6. ASSUME LoopStops PROVE Flags'
    BY <1>6, Zenon DEF LoopStops, Goto, control, clock, net, pool, workers
  <1>7. ASSUME LoopGoesOn PROVE Flags'
    BY <1>7, Zenon DEF LoopGoesOn, Goto, Harvest, control, clock, net, pool, workers
  <1>8. ASSUME SelectIdle PROVE Flags'
    BY <1>8, Zenon DEF SelectIdle, RaiseAlarm, Goto, control, clock, net, pool, workers
  <1>9. ASSUME SelectReady PROVE Flags'
    BY <1>9, Zenon DEF SelectReady, Goto, control, clock, net, pool, workers
  <1>10. ASSUME SelectFails PROVE Flags'
    BY <1>10, Zenon DEF SelectFails, RaiseAlarm, Goto, control, clock, net, pool, workers
  <1>11. ASSUME SelectSkipped PROVE Flags'
    BY <1>11, Zenon DEF SelectSkipped, Goto, control, clock, net, pool, workers
  <1>12. ASSUME ReadPacket PROVE Flags'
    BY <1>12, Zenon DEF ReadPacket, control, clock, net, pool, workers
  <1>13. ASSUME IgnorePacket PROVE Flags'
    BY <1>13, Zenon DEF IgnorePacket, control, clock, net, pool, workers
  <1>14. ASSUME DropPacket PROVE Flags'
    BY <1>14, Zenon DEF DropPacket, MissBuffer, control, clock, net, pool, workers
  <1>15. ASSUME ScanEnds PROVE Flags'
    BY <1>15, Zenon DEF ScanEnds, MissBuffer, Goto, control, clock, net, pool, workers
  <1>16. ASSUME NoteAlarm PROVE Flags'
    BY <1>16, Zenon DEF NoteAlarm, Goto, control, clock, net, pool, workers
  <1>17. ASSUME Timer PROVE Flags'
    BY <1>17, Zenon DEF Timer, Goto, AskWorker, control, clock, net, pool, workers
  <1>18. ASSUME TakeFull PROVE Flags'
    BY <1>18, Zenon DEF TakeFull, Goto, control, clock, net, pool, workers
  <1>19. ASSUME Handle PROVE Flags'
    BY <1>19, Zenon DEF Handle, Goto, AskWorker, control, clock, net, pool, workers
  <1>20. ASSUME DrainEnds PROVE Flags'
    BY <1>20, Zenon DEF DrainEnds, Goto, control, clock, net, pool, workers
  <1>21. ASSUME Cleanup PROVE Flags'
    BY <1>21, Zenon DEF Cleanup, control, clock, net, pool, workers
  <1>21a. ASSUME CleanupHarvests PROVE Flags'
    BY <1>21a, Zenon DEF CleanupHarvests, Harvest, control, clock, net, pool, workers
  <1>22. ASSUME NEW t \in Tasks, RunEnds(t) PROVE Flags'
    BY <1>22, Zenon DEF RunEnds, control, clock, net, pool, workers
  <1>23. CASE UNCHANGED vars
    BY <1>23 DEF vars, control, clock, net, pool, workers
  <1>24. QED
    BY <1>1, <1>2, <1>3, <1>4, <1>5, <1>6, <1>7, <1>8, <1>9, <1>10, <1>11, <1>12, <1>13, <1>14, <1>15, <1>16, <1>17, <1>18, <1>19, <1>20, <1>21, <1>21a, <1>22, <1>23
    DEF Next, Step, Top, Scan, Drain

(* Every step keeps the types of the other variables.                      *)
LEMMA ValueStep == TypeOK /\ [Next]_vars => Values'
  <1> SUFFICES ASSUME TypeOK, [Next]_vars
               PROVE  Values'
    OBVIOUS
  <1> USE LoopAssumption DEF Values, TypeOK, Places
  <1>1. ASSUME NEW t \in Tasks, Run(t) PROVE Values'
    BY <1>1 DEF Run, MayRun, control, clock, net, pool, workers
  <1>2. ASSUME NEW t \in Tasks, Stop(t) PROVE Values'
    BY <1>2 DEF Stop, control, clock, net, pool, workers
  <1>3. ASSUME Arrive PROVE Values'
    BY <1>3 DEF Arrive, control, clock, net, pool, workers
  <1>4. ASSUME BootFails PROVE Values'
    BY <1>4 DEF BootFails, Goto, control, clock, net, pool, workers
  <1>5. ASSUME Boot PROVE Values'
    BY <1>5 DEF Boot, Goto, AskWorker, control, clock, net, pool, workers
  <1>6. ASSUME LoopStops PROVE Values'
    BY <1>6 DEF LoopStops, Goto, control, clock, net, pool, workers
  <1>7. ASSUME LoopGoesOn PROVE Values'
    BY <1>7 DEF LoopGoesOn, Goto, Harvest, control, clock, net, pool, workers
  <1>8. ASSUME SelectIdle PROVE Values'
    BY <1>8 DEF SelectIdle, RaiseAlarm, Goto, control, clock, net, pool, workers
  <1>9. ASSUME SelectReady PROVE Values'
    BY <1>9 DEF SelectReady, Goto, control, clock, net, pool, workers
  <1>10. ASSUME SelectFails PROVE Values'
    BY <1>10 DEF SelectFails, RaiseAlarm, Goto, control, clock, net, pool, workers
  <1>11. ASSUME SelectSkipped PROVE Values'
    BY <1>11 DEF SelectSkipped, Goto, control, clock, net, pool, workers
  <1>12. ASSUME ReadPacket PROVE Values'
    BY <1>12 DEF ReadPacket, control, clock, net, pool, workers
  <1>13. ASSUME IgnorePacket PROVE Values'
    BY <1>13 DEF IgnorePacket, control, clock, net, pool, workers
  <1>14. ASSUME DropPacket PROVE Values'
    BY <1>14 DEF DropPacket, MissBuffer, control, clock, net, pool, workers
  <1>15. ASSUME ScanEnds PROVE Values'
    BY <1>15 DEF ScanEnds, MissBuffer, Goto, control, clock, net, pool, workers
  <1>16. ASSUME NoteAlarm PROVE Values'
    BY <1>16 DEF NoteAlarm, Goto, control, clock, net, pool, workers
  <1>17. ASSUME Timer PROVE Values'
    BY <1>17 DEF Timer, Goto, AskWorker, control, clock, net, pool, workers
  <1>18. ASSUME TakeFull PROVE Values'
    BY <1>18 DEF TakeFull, Goto, control, clock, net, pool, workers
  <1>19. ASSUME Handle PROVE Values'
    BY <1>19 DEF Handle, Goto, AskWorker, control, clock, net, pool, workers
  <1>20. ASSUME DrainEnds PROVE Values'
    BY <1>20 DEF DrainEnds, Goto, control, clock, net, pool, workers
  <1>21. ASSUME Cleanup PROVE Values'
    BY <1>21 DEF Cleanup, control, clock, net, pool, workers
  <1>21a. ASSUME CleanupHarvests PROVE Values'
    BY <1>21a DEF CleanupHarvests, Harvest, control, clock, net, pool, workers
  <1>22. ASSUME NEW t \in Tasks, RunEnds(t) PROVE Values'
    BY <1>22 DEF RunEnds, control, clock, net, pool, workers
  <1>23. CASE UNCHANGED vars
    BY <1>23 DEF vars, control, clock, net, pool, workers
  <1>24. QED
    BY <1>1, <1>2, <1>3, <1>4, <1>5, <1>6, <1>7, <1>8, <1>9, <1>10, <1>11, <1>12, <1>13, <1>14, <1>15, <1>16, <1>17, <1>18, <1>19, <1>20, <1>21, <1>21a, <1>22, <1>23
    DEF Next, Step, Top, Scan, Drain

(* No step loses a buffer or adds one it did not make.                     *)
LEMMA PoolStep == TypeOK /\ PoolConserved /\ InHandPlace /\ [Next]_vars => PoolConserved'
  <1> SUFFICES ASSUME TypeOK, PoolConserved, InHandPlace, [Next]_vars
               PROVE  PoolConserved'
    OBVIOUS
  <1> USE LoopAssumption DEF PoolConserved, InHandPlace, TypeOK
  <1>1. ASSUME NEW t \in Tasks, Run(t) PROVE PoolConserved'
    BY <1>1 DEF Run, MayRun, control, clock, net, pool, workers
  <1>2. ASSUME NEW t \in Tasks, Stop(t) PROVE PoolConserved'
    BY <1>2 DEF Stop, control, clock, net, pool, workers
  <1>3. ASSUME Arrive PROVE PoolConserved'
    BY <1>3 DEF Arrive, control, clock, net, pool, workers
  <1>4. ASSUME BootFails PROVE PoolConserved'
    BY <1>4 DEF BootFails, Goto, control, clock, net, pool, workers
  <1>5. ASSUME Boot PROVE PoolConserved'
    BY <1>5 DEF Boot, Goto, AskWorker, control, clock, net, pool, workers
  <1>6. ASSUME LoopStops PROVE PoolConserved'
    BY <1>6 DEF LoopStops, Goto, control, clock, net, pool, workers
  <1>7. ASSUME LoopGoesOn PROVE PoolConserved'
    BY <1>7 DEF LoopGoesOn, Goto, Harvest, control, clock, net, pool, workers
  <1>8. ASSUME SelectIdle PROVE PoolConserved'
    BY <1>8 DEF SelectIdle, RaiseAlarm, Goto, control, clock, net, pool, workers
  <1>9. ASSUME SelectReady PROVE PoolConserved'
    BY <1>9 DEF SelectReady, Goto, control, clock, net, pool, workers
  <1>10. ASSUME SelectFails PROVE PoolConserved'
    BY <1>10 DEF SelectFails, RaiseAlarm, Goto, control, clock, net, pool, workers
  <1>11. ASSUME SelectSkipped PROVE PoolConserved'
    BY <1>11 DEF SelectSkipped, Goto, control, clock, net, pool, workers
  <1>12. ASSUME ReadPacket PROVE PoolConserved'
    BY <1>12 DEF ReadPacket, control, clock, net, pool, workers
  <1>13. ASSUME IgnorePacket PROVE PoolConserved'
    BY <1>13 DEF IgnorePacket, control, clock, net, pool, workers
  <1>14. ASSUME DropPacket PROVE PoolConserved'
    BY <1>14 DEF DropPacket, MissBuffer, control, clock, net, pool, workers
  <1>15. ASSUME ScanEnds PROVE PoolConserved'
    BY <1>15 DEF ScanEnds, MissBuffer, Goto, control, clock, net, pool, workers
  <1>16. ASSUME NoteAlarm PROVE PoolConserved'
    BY <1>16 DEF NoteAlarm, Goto, control, clock, net, pool, workers
  <1>17. ASSUME Timer PROVE PoolConserved'
    BY <1>17 DEF Timer, Goto, AskWorker, control, clock, net, pool, workers
  <1>18. ASSUME TakeFull PROVE PoolConserved'
    BY <1>18 DEF TakeFull, Goto, control, clock, net, pool, workers
  <1>19. ASSUME Handle PROVE PoolConserved'
    BY <1>19 DEF Handle, Goto, AskWorker, control, clock, net, pool, workers
  <1>20. ASSUME DrainEnds PROVE PoolConserved'
    BY <1>20 DEF DrainEnds, Goto, control, clock, net, pool, workers
  <1>21. ASSUME Cleanup PROVE PoolConserved'
    BY <1>21 DEF Cleanup, control, clock, net, pool, workers
  <1>21a. ASSUME CleanupHarvests PROVE PoolConserved'
    BY <1>21a DEF CleanupHarvests, Harvest, control, clock, net, pool, workers
  <1>22. ASSUME NEW t \in Tasks, RunEnds(t) PROVE PoolConserved'
    BY <1>22 DEF RunEnds, control, clock, net, pool, workers
  <1>23. CASE UNCHANGED vars
    BY <1>23 DEF vars, control, clock, net, pool, workers
  <1>24. QED
    BY <1>1, <1>2, <1>3, <1>4, <1>5, <1>6, <1>7, <1>8, <1>9, <1>10, <1>11, <1>12, <1>13, <1>14, <1>15, <1>16, <1>17, <1>18, <1>19, <1>20, <1>21, <1>21a, <1>22, <1>23
    DEF Next, Step, Top, Scan, Drain

(* No step brings a second task into the daemon.                           *)
LEMMA DaemonStep == TypeOK /\ OneDaemon /\ [Next]_vars => OneDaemon'
  <1> SUFFICES ASSUME TypeOK, OneDaemon, [Next]_vars
               PROVE  OneDaemon'
    OBVIOUS
  <1> USE LoopAssumption DEF OneDaemon, TypeOK
  <1>1. ASSUME NEW t \in Tasks, Run(t) PROVE OneDaemon'
    BY <1>1 DEF Run, MayRun, control, clock, net, pool, workers
  <1>2. ASSUME NEW t \in Tasks, Stop(t) PROVE OneDaemon'
    BY <1>2 DEF Stop, control, clock, net, pool, workers
  <1>3. ASSUME Arrive PROVE OneDaemon'
    BY <1>3 DEF Arrive, control, clock, net, pool, workers
  <1>4. ASSUME BootFails PROVE OneDaemon'
    BY <1>4 DEF BootFails, Goto, control, clock, net, pool, workers
  <1>5. ASSUME Boot PROVE OneDaemon'
    BY <1>5 DEF Boot, Goto, AskWorker, control, clock, net, pool, workers
  <1>6. ASSUME LoopStops PROVE OneDaemon'
    BY <1>6 DEF LoopStops, Goto, control, clock, net, pool, workers
  <1>7. ASSUME LoopGoesOn PROVE OneDaemon'
    BY <1>7 DEF LoopGoesOn, Goto, Harvest, control, clock, net, pool, workers
  <1>8. ASSUME SelectIdle PROVE OneDaemon'
    BY <1>8 DEF SelectIdle, RaiseAlarm, Goto, control, clock, net, pool, workers
  <1>9. ASSUME SelectReady PROVE OneDaemon'
    BY <1>9 DEF SelectReady, Goto, control, clock, net, pool, workers
  <1>10. ASSUME SelectFails PROVE OneDaemon'
    BY <1>10 DEF SelectFails, RaiseAlarm, Goto, control, clock, net, pool, workers
  <1>11. ASSUME SelectSkipped PROVE OneDaemon'
    BY <1>11 DEF SelectSkipped, Goto, control, clock, net, pool, workers
  <1>12. ASSUME ReadPacket PROVE OneDaemon'
    BY <1>12 DEF ReadPacket, control, clock, net, pool, workers
  <1>13. ASSUME IgnorePacket PROVE OneDaemon'
    BY <1>13 DEF IgnorePacket, control, clock, net, pool, workers
  <1>14. ASSUME DropPacket PROVE OneDaemon'
    BY <1>14 DEF DropPacket, MissBuffer, control, clock, net, pool, workers
  <1>15. ASSUME ScanEnds PROVE OneDaemon'
    BY <1>15 DEF ScanEnds, MissBuffer, Goto, control, clock, net, pool, workers
  <1>16. ASSUME NoteAlarm PROVE OneDaemon'
    BY <1>16 DEF NoteAlarm, Goto, control, clock, net, pool, workers
  <1>17. ASSUME Timer PROVE OneDaemon'
    BY <1>17 DEF Timer, Goto, AskWorker, control, clock, net, pool, workers
  <1>18. ASSUME TakeFull PROVE OneDaemon'
    BY <1>18 DEF TakeFull, Goto, control, clock, net, pool, workers
  <1>19. ASSUME Handle PROVE OneDaemon'
    BY <1>19 DEF Handle, Goto, AskWorker, control, clock, net, pool, workers
  <1>20. ASSUME DrainEnds PROVE OneDaemon'
    BY <1>20 DEF DrainEnds, Goto, control, clock, net, pool, workers
  <1>21. ASSUME Cleanup PROVE OneDaemon'
    BY <1>21 DEF Cleanup, control, clock, net, pool, workers
  <1>21a. ASSUME CleanupHarvests PROVE OneDaemon'
    BY <1>21a DEF CleanupHarvests, Harvest, control, clock, net, pool, workers
  <1>22. ASSUME NEW t \in Tasks, RunEnds(t) PROVE OneDaemon'
    BY <1>22 DEF RunEnds, control, clock, net, pool, workers
  <1>23. CASE UNCHANGED vars
    BY <1>23 DEF vars, control, clock, net, pool, workers
  <1>24. QED
    BY <1>1, <1>2, <1>3, <1>4, <1>5, <1>6, <1>7, <1>8, <1>9, <1>10, <1>11, <1>12, <1>13, <1>14, <1>15, <1>16, <1>17, <1>18, <1>19, <1>20, <1>21, <1>21a, <1>22, <1>23
    DEF Next, Step, Top, Scan, Drain

(* The full list is empty wherever the loop starts again.                  *)
LEMMA PlaceStep == TypeOK /\ OneDaemon /\ NothingStranded /\ InHandPlace /\ [Next]_vars => NothingStranded' /\ InHandPlace'
  <1> SUFFICES ASSUME TypeOK, OneDaemon, NothingStranded, InHandPlace, [Next]_vars
               PROVE  NothingStranded' /\ InHandPlace'
    OBVIOUS
  <1> USE LoopAssumption DEF NothingStranded, InHandPlace, TypeOK, OneDaemon
  <1>1. ASSUME NEW t \in Tasks, Run(t) PROVE NothingStranded' /\ InHandPlace'
    BY <1>1 DEF Run, MayRun, control, clock, net, pool, workers
  <1>2. ASSUME NEW t \in Tasks, Stop(t) PROVE NothingStranded' /\ InHandPlace'
    BY <1>2 DEF Stop, control, clock, net, pool, workers
  <1>3. ASSUME Arrive PROVE NothingStranded' /\ InHandPlace'
    BY <1>3 DEF Arrive, control, clock, net, pool, workers
  <1>4. ASSUME BootFails PROVE NothingStranded' /\ InHandPlace'
    BY <1>4 DEF BootFails, Goto, control, clock, net, pool, workers
  <1>5. ASSUME Boot PROVE NothingStranded' /\ InHandPlace'
    BY <1>5 DEF Boot, Goto, AskWorker, control, clock, net, pool, workers
  <1>6. ASSUME LoopStops PROVE NothingStranded' /\ InHandPlace'
    BY <1>6 DEF LoopStops, Goto, control, clock, net, pool, workers
  <1>7. ASSUME LoopGoesOn PROVE NothingStranded' /\ InHandPlace'
    BY <1>7 DEF LoopGoesOn, Goto, Harvest, control, clock, net, pool, workers
  <1>8. ASSUME SelectIdle PROVE NothingStranded' /\ InHandPlace'
    BY <1>8 DEF SelectIdle, RaiseAlarm, Goto, control, clock, net, pool, workers
  <1>9. ASSUME SelectReady PROVE NothingStranded' /\ InHandPlace'
    BY <1>9 DEF SelectReady, Goto, control, clock, net, pool, workers
  <1>10. ASSUME SelectFails PROVE NothingStranded' /\ InHandPlace'
    BY <1>10 DEF SelectFails, RaiseAlarm, Goto, control, clock, net, pool, workers
  <1>11. ASSUME SelectSkipped PROVE NothingStranded' /\ InHandPlace'
    BY <1>11 DEF SelectSkipped, Goto, control, clock, net, pool, workers
  <1>12. ASSUME ReadPacket PROVE NothingStranded' /\ InHandPlace'
    BY <1>12 DEF ReadPacket, control, clock, net, pool, workers
  <1>13. ASSUME IgnorePacket PROVE NothingStranded' /\ InHandPlace'
    BY <1>13 DEF IgnorePacket, control, clock, net, pool, workers
  <1>14. ASSUME DropPacket PROVE NothingStranded' /\ InHandPlace'
    BY <1>14 DEF DropPacket, MissBuffer, control, clock, net, pool, workers
  <1>15. ASSUME ScanEnds PROVE NothingStranded' /\ InHandPlace'
    BY <1>15 DEF ScanEnds, MissBuffer, Goto, control, clock, net, pool, workers
  <1>16. ASSUME NoteAlarm PROVE NothingStranded' /\ InHandPlace'
    BY <1>16 DEF NoteAlarm, Goto, control, clock, net, pool, workers
  <1>17. ASSUME Timer PROVE NothingStranded' /\ InHandPlace'
    BY <1>17 DEF Timer, Goto, AskWorker, control, clock, net, pool, workers
  <1>18. ASSUME TakeFull PROVE NothingStranded' /\ InHandPlace'
    BY <1>18 DEF TakeFull, Goto, control, clock, net, pool, workers
  <1>19. ASSUME Handle PROVE NothingStranded' /\ InHandPlace'
    BY <1>19 DEF Handle, Goto, AskWorker, control, clock, net, pool, workers
  <1>20. ASSUME DrainEnds PROVE NothingStranded' /\ InHandPlace'
    BY <1>20 DEF DrainEnds, Goto, control, clock, net, pool, workers
  <1>21. ASSUME Cleanup PROVE NothingStranded' /\ InHandPlace'
    BY <1>21 DEF Cleanup, control, clock, net, pool, workers
  <1>21a. ASSUME CleanupHarvests PROVE NothingStranded' /\ InHandPlace'
    BY <1>21a DEF CleanupHarvests, Harvest, control, clock, net, pool, workers
  <1>22. ASSUME NEW t \in Tasks, RunEnds(t) PROVE NothingStranded' /\ InHandPlace'
    BY <1>22 DEF RunEnds, control, clock, net, pool, workers
  <1>23. CASE UNCHANGED vars
    BY <1>23 DEF vars, control, clock, net, pool, workers
  <1>24. QED
    BY <1>1, <1>2, <1>3, <1>4, <1>5, <1>6, <1>7, <1>8, <1>9, <1>10, <1>11, <1>12, <1>13, <1>14, <1>15, <1>16, <1>17, <1>18, <1>19, <1>20, <1>21, <1>21a, <1>22, <1>23
    DEF Next, Step, Top, Scan, Drain

(* Every step passes a pending alarm on or leaves it pending.              *)
LEMMA AlarmStep == TypeOK /\ OneDaemon /\ AlarmsServedOnce /\ AlarmPlaces /\ [Next]_vars => AlarmsServedOnce' /\ AlarmPlaces'
  <1> SUFFICES ASSUME TypeOK, OneDaemon, AlarmsServedOnce, AlarmPlaces, [Next]_vars
               PROVE  AlarmsServedOnce' /\ AlarmPlaces'
    OBVIOUS
  <1> USE LoopAssumption DEF AlarmsServedOnce, AlarmPlaces, TypeOK, OneDaemon
  <1>1. ASSUME NEW t \in Tasks, Run(t) PROVE AlarmsServedOnce' /\ AlarmPlaces'
    BY <1>1 DEF Run, MayRun, control, clock, net, pool, workers
  <1>2. ASSUME NEW t \in Tasks, Stop(t) PROVE AlarmsServedOnce' /\ AlarmPlaces'
    BY <1>2 DEF Stop, control, clock, net, pool, workers
  <1>3. ASSUME Arrive PROVE AlarmsServedOnce' /\ AlarmPlaces'
    BY <1>3 DEF Arrive, control, clock, net, pool, workers
  <1>4. ASSUME BootFails PROVE AlarmsServedOnce' /\ AlarmPlaces'
    BY <1>4 DEF BootFails, Goto, control, clock, net, pool, workers
  <1>5. ASSUME Boot PROVE AlarmsServedOnce' /\ AlarmPlaces'
    BY <1>5 DEF Boot, Goto, AskWorker, control, clock, net, pool, workers
  <1>6. ASSUME LoopStops PROVE AlarmsServedOnce' /\ AlarmPlaces'
    BY <1>6 DEF LoopStops, Goto, control, clock, net, pool, workers
  <1>7. ASSUME LoopGoesOn PROVE AlarmsServedOnce' /\ AlarmPlaces'
    BY <1>7 DEF LoopGoesOn, Goto, Harvest, control, clock, net, pool, workers
  <1>8. ASSUME SelectIdle PROVE AlarmsServedOnce' /\ AlarmPlaces'
    BY <1>8 DEF SelectIdle, RaiseAlarm, Goto, control, clock, net, pool, workers
  <1>9. ASSUME SelectReady PROVE AlarmsServedOnce' /\ AlarmPlaces'
    BY <1>9 DEF SelectReady, Goto, control, clock, net, pool, workers
  <1>10. ASSUME SelectFails PROVE AlarmsServedOnce' /\ AlarmPlaces'
    <2>1. pc = "wait" /\ ~alarm_flag /\ ~was_alarmed /\ seconds = 0
      BY <1>10 DEF SelectFails
    <2>2. alarm_flag' = TRUE /\ was_alarmed' = was_alarmed /\ seconds' = seconds + 1
      BY <1>10 DEF SelectFails, RaiseAlarm
    <2>3. pc' \in {"scan", "alarm"}
      BY <1>10 DEF SelectFails, Goto
    <2>4. AlarmsServedOnce'
      BY <2>1, <2>2
    <2>5. AlarmPlaces'
      BY <2>1, <2>2, <2>3
    <2>6. QED
      BY <2>4, <2>5
  <1>11. ASSUME SelectSkipped PROVE AlarmsServedOnce' /\ AlarmPlaces'
    BY <1>11 DEF SelectSkipped, Goto, control, clock, net, pool, workers
  <1>12. ASSUME ReadPacket PROVE AlarmsServedOnce' /\ AlarmPlaces'
    BY <1>12 DEF ReadPacket, control, clock, net, pool, workers
  <1>13. ASSUME IgnorePacket PROVE AlarmsServedOnce' /\ AlarmPlaces'
    BY <1>13 DEF IgnorePacket, control, clock, net, pool, workers
  <1>14. ASSUME DropPacket PROVE AlarmsServedOnce' /\ AlarmPlaces'
    BY <1>14 DEF DropPacket, MissBuffer, control, clock, net, pool, workers
  <1>15. ASSUME ScanEnds PROVE AlarmsServedOnce' /\ AlarmPlaces'
    BY <1>15 DEF ScanEnds, MissBuffer, Goto, control, clock, net, pool, workers
  <1>16. ASSUME NoteAlarm PROVE AlarmsServedOnce' /\ AlarmPlaces'
    BY <1>16 DEF NoteAlarm, Goto, control, clock, net, pool, workers
  <1>17. ASSUME Timer PROVE AlarmsServedOnce' /\ AlarmPlaces'
    BY <1>17 DEF Timer, Goto, AskWorker, control, clock, net, pool, workers
  <1>18. ASSUME TakeFull PROVE AlarmsServedOnce' /\ AlarmPlaces'
    BY <1>18 DEF TakeFull, Goto, control, clock, net, pool, workers
  <1>19. ASSUME Handle PROVE AlarmsServedOnce' /\ AlarmPlaces'
    BY <1>19 DEF Handle, Goto, AskWorker, control, clock, net, pool, workers
  <1>20. ASSUME DrainEnds PROVE AlarmsServedOnce' /\ AlarmPlaces'
    BY <1>20 DEF DrainEnds, Goto, control, clock, net, pool, workers
  <1>21. ASSUME Cleanup PROVE AlarmsServedOnce' /\ AlarmPlaces'
    BY <1>21 DEF Cleanup, control, clock, net, pool, workers
  <1>21a. ASSUME CleanupHarvests PROVE AlarmsServedOnce' /\ AlarmPlaces'
    BY <1>21a DEF CleanupHarvests, Harvest, control, clock, net, pool, workers
  <1>22. ASSUME NEW t \in Tasks, RunEnds(t) PROVE AlarmsServedOnce' /\ AlarmPlaces'
    BY <1>22 DEF RunEnds, control, clock, net, pool, workers
  <1>23. CASE UNCHANGED vars
    BY <1>23 DEF vars, control, clock, net, pool, workers
  <1>24. QED
    BY <1>1, <1>2, <1>3, <1>4, <1>5, <1>6, <1>7, <1>8, <1>9, <1>10, <1>11, <1>12, <1>13, <1>14, <1>15, <1>16, <1>17, <1>18, <1>19, <1>20, <1>21, <1>21a, <1>22, <1>23
    DEF Next, Step, Top, Scan, Drain

(* The invariant is inductive.                                             *)
LEMMA InductiveStep == IInv /\ [Next]_vars => IInv'
  <1> SUFFICES ASSUME IInv, [Next]_vars
               PROVE  IInv'
    OBVIOUS
  <1>1. Flags' /\ Values'
    BY FlagStep, ValueStep DEF IInv
  <1>2. TypeOK'
    BY <1>1 DEF TypeOK, Flags, Values
  <1>3. QED
    BY <1>2, PoolStep, DaemonStep, PlaceStep, AlarmStep DEF IInv

(* The invariant holds always.                                             *)
LEMMA Invariance == Spec => []IInv
  BY InitInv, InductiveStep, PTL DEF Spec

(* Values keep their types, and no list of buffers gets a negative length. *)
THEOREM TypeCorrect == Spec => []TypeOK
  <1>1. IInv => TypeOK
    BY DEF IInv
  <1>2. QED
    BY Invariance, <1>1, PTL

(* rtems_ntpd_run() never lets two tasks into the daemon.                  *)
THEOREM NeverTwoDaemons == Spec => []OneDaemon
  <1>1. IInv => OneDaemon
    BY DEF IInv
  <1>2. QED
    BY Invariance, <1>1, PTL

(* Receive buffers are neither lost nor counted twice, over restarts, too. *)
THEOREM PoolAlwaysConserved == Spec => []PoolConserved
  <1>1. IInv => PoolConserved
    BY DEF IInv
  <1>2. QED
    BY Invariance, <1>1, PTL

(* A stop leaves no packet behind for the run that follows.                *)
THEOREM NeverStranded == Spec => []NothingStranded
  <1>1. IInv => NothingStranded
    BY DEF IInv
  <1>2. QED
    BY Invariance, <1>1, PTL

(* Each alarm leads to exactly one call of timer().                        *)
THEOREM AlarmsAlwaysServedOnce == Spec => []AlarmsServedOnce
  <1>1. IInv => AlarmsServedOnce
    BY DEF IInv
  <1>2. QED
    BY Invariance, <1>1, PTL
=============================================================================
