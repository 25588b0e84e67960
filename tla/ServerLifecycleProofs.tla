------------------------ MODULE ServerLifecycleProofs ------------------------
(* Proofs about the life of a server process: when the main thread may leave   *)
(* its wait, and what a request may find of the database.                      *)
EXTENDS ServerLifecycle, TLAPS

\* Where the main thread is: past the start the flag is set unless Stop has taken
\* it back, and it only leaves the wait if it saw the flag down.
MainConsistent ==
  /\ mainPc # "init" => serverRunning \/ stopAsked
  /\ mainPc = "return" => stopAsked
  /\ ioc = "destroyed" => mainPc = "return"

ThreadTypes ==
  /\ running \in BOOLEAN
  /\ mainPc \in {"init", "start", "mysql", "configure", "connect",
                 "wait", "check", "block", "blocked", "return"}
  /\ ioThread \in {"none", "serving"}
  /\ serverRunning \in BOOLEAN
  /\ mutex \in {"free", "main"}
  /\ awake \in BOOLEAN
  /\ stopPc \in {"idle", "notify", "join", "returned"}
  /\ stopAsked \in BOOLEAN
  /\ servMysql \in {"null", "unconnected", "connecting", "connected"}
  /\ ioc \in {"alive", "destroyed"}

ThreadInv == ThreadTypes /\ MainConsistent

\* What the process is configured with; only Start and EditFile change any of it.
ConfigTypes ==
  file \in Files /\ config \in Files \cup {Missing} /\ listening \in Uint16 \cup {NoPort}

ConfigInv == ConfigTypes /\ ListensAsConfigured

-----------------------------------------------------------------------------
(* The port passes through a signed short. *)

LEMMA Uint16Is == ASSUME NEW n PROVE n \in Uint16 <=> n \in Int /\ 0 <= n /\ n < Width
<1>1. Width \in Int
  BY DEF Width
<1> QED BY <1>1 DEF Uint16

LEMMA ToUint16Type == ASSUME NEW n \in Int PROVE ToUint16(n) \in Uint16
<1>1. ToUint16(n) \in Int /\ 0 <= ToUint16(n) /\ ToUint16(n) < Width
  BY SMT DEF ToUint16, Width
<1> QED BY <1>1, Uint16Is

LEMMA ToShortType == ASSUME NEW n \in Int PROVE ToShort(n) \in Int
  BY SMT DEF ToShort, Width

\* What does not fit into the short becomes negative, and comes back.
LEMMA PortsPass == ASSUME NEW n \in Uint16 PROVE ToUint16(ToShort(n)) = n
<1>1. n \in Int /\ 0 <= n /\ n < 65536
  BY Uint16Is DEF Width
<1>2. CASE n < 32768
  <2>1. ToShort(n) = n
    BY <1>1, <1>2, SMT DEF ToShort, Width
  <2> QED BY <2>1, <1>1, SMT DEF ToUint16, Width
<1>3. CASE n >= 32768
  <2>1. ToShort(n) = n - 65536
    BY <1>1, <1>3, SMT DEF ToShort, Width
  <2> QED BY <2>1, <1>1, SMT DEF ToUint16, Width
<1> QED BY <1>1, <1>2, <1>3, SMT

LEMMA ConfigInit == Init => ConfigInv
  BY Zenon DEF Init, ConfigInv, ConfigTypes, ListensAsConfigured

LEMMA ConfigUnchanged == ASSUME ConfigInv, UNCHANGED configuration PROVE ConfigInv'
  BY Zenon DEF ConfigInv, ConfigTypes, ListensAsConfigured, configuration

LEMMA ConfigKept == ASSUME ConfigInv, [Next]_vars PROVE ConfigInv'
<1>1. CASE Start
  <2> DEFINE port == GetConfigValue(file, "listenport")
  <2>1. port \in Int /\ config' = file /\ listening' = ToUint16(ToShort(port)) /\ file' = file
    BY <1>1, Zenon DEF Start
  <2>2. listening' \in Uint16 /\ (port \in Uint16 => listening' = port)
    BY <2>1, ToShortType, ToUint16Type, PortsPass, Zenon
  <2>3. file # Missing
    BY <2>1, ConfigAssumption DEF GetConfigValue
  <2>4. ListensAsConfigured'
    BY <2>1, <2>2, <2>3, Zenon DEF ListensAsConfigured
  <2> QED BY <2>1, <2>2, <2>4, Zenon DEF ConfigInv, ConfigTypes
<1>2. CASE EditFile
  BY <1>2, Zenon DEF EditFile, ConfigInv, ConfigTypes, ListensAsConfigured
<1>3. CASE [Next]_vars /\ ~Start /\ ~EditFile
  <2>1. UNCHANGED configuration
    BY <1>3, Zenon DEF Next, InitServer, WaitForServerToStop, Stop, Request, vars,
       InitThrows, MakeMysql, ConfigureThrows, Configure, Connect, ConnectThrows, WaitLock,
       WaitCheck, WaitBlock, WaitWake, MainReturns, WaitSpurious, StopSet, StopNotify,
       StopReturns, StartThread, RequestCrashes, RequestThrows
  <2> QED BY <2>1, ConfigUnchanged
<1> QED BY <1>1, <1>2, <1>3

-----------------------------------------------------------------------------
(* The threads. *)

LEMMA ThreadInit == Init => ThreadInv
<1> SUFFICES ASSUME Init PROVE ThreadInv
  OBVIOUS
<1>1. ThreadTypes
  BY Zenon DEF Init, ThreadTypes
<1>2. MainConsistent
  BY SMT DEF Init, MainConsistent
<1> QED BY <1>1, <1>2 DEF ThreadInv

\* The start of the server does not change what the stopper has done.
LEMMA InitServerKeeps == ASSUME ThreadInv, InitServer \/ EditFile PROVE ThreadInv'
<1> USE DEF ThreadInv, ThreadTypes, MainConsistent, Main, process, condition, stopper
<1>1. CASE InitThrows
  BY <1>1 DEF InitThrows
<1>2. CASE Start
  BY <1>2 DEF Start
<1>3. CASE MakeMysql
  BY <1>3 DEF MakeMysql
<1>4. CASE ConfigureThrows
  BY <1>4 DEF ConfigureThrows
<1>5. CASE Configure
  BY <1>5 DEF Configure
<1>6. CASE Connect
  BY <1>6 DEF Connect
<1>7. CASE ConnectThrows
  BY <1>7 DEF ConnectThrows
<1>8. CASE EditFile
  BY <1>8 DEF EditFile
<1>9. CASE StartThread
  BY <1>9 DEF StartThread
<1> QED BY <1>1, <1>2, <1>3, <1>4, <1>5, <1>6, <1>7, <1>8, <1>9 DEF InitServer

\* The wait looks at the flag and leaves only if it is down.
LEMMA WaitKeeps ==
  ASSUME ThreadInv, WaitForServerToStop \/ WaitSpurious PROVE ThreadInv'
<1> USE DEF ThreadInv, ThreadTypes, MainConsistent, Main, process, condition, stopper
<1>1. CASE WaitLock
  BY <1>1 DEF WaitLock
<1>2. CASE WaitCheck
  BY <1>2 DEF WaitCheck
<1>3. CASE WaitBlock
  BY <1>3 DEF WaitBlock
<1>4. CASE WaitWake
  BY <1>4 DEF WaitWake
<1>5. CASE MainReturns
  BY <1>5 DEF MainReturns
<1>6. CASE WaitSpurious
  BY <1>6 DEF WaitSpurious
<1> QED BY <1>1, <1>2, <1>3, <1>4, <1>5, <1>6 DEF WaitForServerToStop

\* Stop takes the flag back and says so; a request only ends the process.
LEMMA StopAndRequestKeep ==
  ASSUME ThreadInv, Stop \/ Request PROVE ThreadInv'
<1> USE DEF ThreadInv, ThreadTypes, MainConsistent, Stopper, Serves, process, condition, stopper
<1>1. CASE StopSet
  BY <1>1 DEF StopSet
<1>2. CASE StopNotify
  BY <1>2 DEF StopNotify
<1>3. CASE StopReturns
  BY <1>3 DEF StopReturns
<1>4. CASE RequestCrashes
  BY <1>4 DEF RequestCrashes
<1>5. CASE RequestThrows
  BY <1>5 DEF RequestThrows
<1> QED BY <1>1, <1>2, <1>3, <1>4, <1>5 DEF Stop, Request

-----------------------------------------------------------------------------

\* The types, the configuration and the place of the main thread hold together in
\* every reachable state.
THEOREM LifecycleIsConsistent == Spec => [](ThreadInv /\ ConfigInv)
<1>1. ThreadInv /\ [Next]_vars => ThreadInv'
  <2> SUFFICES ASSUME ThreadInv, [Next]_vars PROVE ThreadInv'
    OBVIOUS
  <2>1. CASE UNCHANGED vars
    BY <2>1 DEF ThreadInv, ThreadTypes, MainConsistent, vars, process, condition, stopper
  <2> QED BY <2>1, InitServerKeeps, WaitKeeps, StopAndRequestKeep DEF Next
<1>2. ConfigInv /\ [Next]_vars => ConfigInv'
  BY ConfigKept
<1> QED BY <1>1, <1>2, ThreadInit, ConfigInit, PTL DEF Spec

\* The variables keep their shape, through every error path of the start.
THEOREM TypeCorrect == Spec => []TypeOK
<1>1. ThreadInv /\ ConfigInv => TypeOK
  BY Zenon DEF ThreadInv, ThreadTypes, ConfigInv, ConfigTypes, TypeOK
<1> QED BY <1>1, LifecycleIsConsistent, PTL

\* A server listens only on the port that its file said when main read it, whatever
\* the uninitialised flag of the reader was and however often the file is edited.
THEOREM ListensOnConfiguredPort == Spec => []ListensAsConfigured
<1>1. ThreadInv /\ ConfigInv => ListensAsConfigured
  BY DEF ConfigInv
<1> QED BY <1>1, LifecycleIsConsistent, PTL

\* The main thread stays, and the io_context with it, until Stop has been called,
\* wherever the threads were when it looked at the flag.
THEOREM MainStaysUntilStopped == Spec => []StaysUntilStopped
<1>1. ThreadInv /\ ConfigInv => StaysUntilStopped
  BY DEF ThreadInv, MainConsistent, StaysUntilStopped
<1> QED BY <1>1, LifecycleIsConsistent, PTL

-----------------------------------------------------------------------------
(* The wait and the notification. *)

\* The mutex is held between the look at the flag and the wait, so a Stop sets the
\* flag before that look or after the wait has begun; past Start only a Stop that is
\* under way or over has put the flag down.
WaitInv ==
  /\ mutex = "main" <=> mainPc \in {"check", "block"}
  /\ mainPc = "block" => serverRunning
  /\ ~serverRunning /\ mainPc # "init" => stopPc # "idle"

\* The database is missing or being connected only before the main thread waits.
StartInv ==
  /\ servMysql = "null" => mainPc \in {"init", "start", "mysql"}
  /\ servMysql = "connecting" => mainPc = "connect"

WakeInv == WaitInv /\ StartInv /\ WakeupNotLost

LEMMA WakeInit == Init => WakeInv
  BY DEF Init, WakeInv, WaitInv, StartInv, WakeupNotLost

LEMMA WakeStep == ASSUME ThreadInv, WakeInv, [Next]_vars PROVE WakeInv'
<1> USE DEF ThreadInv, ThreadTypes, WakeInv, WaitInv, StartInv, WakeupNotLost,
            Main, Stopper, process, condition, stopper
<1>1. CASE EditFile \/ InitThrows \/ ConfigureThrows \/ ConnectThrows \/ Request
  <2>1. UNCHANGED <<mainPc, serverRunning, mutex, awake, stopPc, servMysql>>
    BY <1>1, Zenon DEF EditFile, InitThrows, ConfigureThrows, ConnectThrows,
                       Request, RequestCrashes, RequestThrows
  <2> QED BY <2>1
<1>2. CASE Start
  BY <1>2 DEF Start
<1>3. CASE StartThread
  BY <1>3 DEF StartThread
<1>4. CASE MakeMysql
  BY <1>4 DEF MakeMysql
<1>5. CASE Configure
  BY <1>5 DEF Configure
<1>6. CASE Connect
  BY <1>6 DEF Connect
<1>7. CASE WaitLock
  BY <1>7 DEF WaitLock
<1>8. CASE WaitCheck
  BY <1>8 DEF WaitCheck
<1>9. CASE WaitBlock
  BY <1>9 DEF WaitBlock
<1>10. CASE WaitWake
  BY <1>10 DEF WaitWake
<1>11. CASE WaitSpurious
  BY <1>11 DEF WaitSpurious
<1>12. CASE MainReturns
  BY <1>12 DEF MainReturns
<1>13. CASE StopSet
  BY <1>13 DEF StopSet
<1>14. CASE StopNotify
  BY <1>14 DEF StopNotify
<1>15. CASE StopReturns
  BY <1>15 DEF StopReturns
<1>16. CASE UNCHANGED vars
  BY <1>16 DEF vars
<1> QED
  BY <1>1, <1>2, <1>3, <1>4, <1>5, <1>6, <1>7, <1>8, <1>9, <1>10, <1>11, <1>12, <1>13, <1>14,
     <1>15, <1>16, Zenon DEF Next, InitServer, WaitForServerToStop, Stop

THEOREM WakeIsConsistent == Spec => []WakeInv
<1>1. ThreadInv /\ WakeInv /\ [Next]_vars => WakeInv'
  BY WakeStep
<1> QED BY <1>1, WakeInit, LifecycleIsConsistent, PTL DEF Spec

\* While the flag is down the main thread is not blocked unless it has been woken or
\* will be, wherever it was when Stop put the flag down and when Stop notified. A
\* Stop before Start does not count: its flag is set again.
THEOREM NoWakeupIsLost == Spec => []WakeupNotLost
<1>1. WakeInv => WakeupNotLost
  BY DEF WakeInv
<1> QED BY <1>1, WakeIsConsistent, PTL

\* Once the main thread waits, no request finds the database missing or half
\* connected: only the answer of a database that is connected ends the process.
THEOREM WaitingServerIsSettled == Spec => SettledOnceWaiting
<1>1. WakeInv /\ [Next]_vars
      => [running' # running /\ mainPc \notin Starting => servMysql = "connected"]_vars
  <2> SUFFICES ASSUME WakeInv, [Next]_vars, running' # running, mainPc \notin Starting
               PROVE  servMysql = "connected"
    OBVIOUS
  <2>1. CASE InitThrows \/ ConfigureThrows \/ ConnectThrows
    BY <2>1 DEF InitThrows, ConfigureThrows, ConnectThrows, Main, Starting
  <2>2. CASE RequestCrashes
    BY <2>2 DEF RequestCrashes, WakeInv, StartInv, Starting
  <2>3. CASE RequestThrows
    BY <2>3 DEF RequestThrows
  <2>4. InitThrows \/ ConfigureThrows \/ ConnectThrows \/ RequestCrashes \/ RequestThrows
    BY Zenon DEF Next, InitServer, WaitForServerToStop, Stop, Request, vars, process,
       EditFile, Start, StartThread, MakeMysql, Configure, Connect, WaitLock, WaitCheck,
       WaitBlock, WaitWake, WaitSpurious, MainReturns, StopSet, StopNotify, StopReturns
  <2> QED BY <2>1, <2>2, <2>3, <2>4
<1> QED BY <1>1, WakeIsConsistent, PTL DEF Spec, SettledOnceWaiting
=============================================================================
