--------------------------- MODULE ServerLifecycle ---------------------------
(***************************************************************************)
(* The life of a server process, ChatServer or ImageServer: the main       *)
(* thread starts the io thread before it connects the database, waits on   *)
(* a condition variable and returns; the io thread serves from its start   *)
(* on; a thread of the program that uses the server may call Stop.         *)
(* ChatServer and ImageServer do the same in this respect.  Its file of    *)
(* configuration is read twice, and may be another one the second time.    *)
(***************************************************************************)
EXTENDS ConfigFile

CONSTANTS
  Address,      \* values that from_string takes
  NoPort        \* the acceptor does not listen

ASSUME LifecycleAssumption ==
  /\ Address \subseteq Word
  /\ {"listenip", "listenport", "mysqlhost", "mysqlport"} \subseteq Key
  /\ NoPort \notin Int

VARIABLES
  running,        \* the process has not terminated abnormally
  file,           \* the configuration file
  config,         \* what the ConfigFileReader of main has read of it
  listening,      \* the port the acceptor listens on
  mainPc,         \* what the main thread does next
  ioThread,       \* tcpServThread_: "none", "serving"
  serverRunning,  \* TcpServer::serverRunning_
  mutex,          \* serverMutex_: who holds it
  awake,          \* main, if blocked on serverCond_, has been woken
  stopPc,         \* what the thread that calls Stop does next
  stopAsked,      \* Stop has set serverRunning_ to false
  servMysql,      \* "null", "unconnected", "connecting", "connected"
  ioc             \* the io_context: "alive", "destroyed"

process == <<running, ioc>>
configuration == <<file, config, listening>>
condition == <<serverRunning, mutex, awake>>
stopper == <<stopPc, stopAsked>>
vars == <<process, configuration, mainPc, ioThread, condition, stopper, servMysql>>

Init ==
  /\ running = TRUE
  /\ file \in Files
  /\ config = Missing
  /\ listening = NoPort
  /\ mainPc = "init"
  /\ ioThread = "none"
  /\ serverRunning = FALSE
  /\ mutex = "free"
  /\ awake = FALSE
  /\ stopPc = "idle"
  /\ stopAsked = FALSE
  /\ servMysql = "null"
  /\ ioc = "alive"

\* The thread is at pc, in a process that has not ended.
Main(pc) == running /\ ioc = "alive" /\ mainPc = pc
Stopper(pc) == running /\ ioc = "alive" /\ stopPc = pc

-----------------------------------------------------------------------------
(* The main thread: main, InitChatServer, MakeMysql. *)

\* Somebody writes the file; once it has been read twice that does not matter.
EditFile ==
  /\ \E pc \in {"init", "start", "mysql", "configure"} : Main(pc)
  /\ file' \in Files
  /\ UNCHANGED <<process, config, listening, mainPc, ioThread, condition, stopper, servMysql>>

\* main has no file or no port, or open, bind or listen throws: nothing catches it.
InitThrows ==
  /\ Main("init")
  /\ running' = FALSE
  /\ UNCHANGED <<ioc, configuration, mainPc, ioThread, condition, stopper, servMysql>>

\* Mutant: atoi, which makes 0 of what is no number.
PortOrZero(n) == IF n \in Int THEN ToUint16(ToShort(n)) ELSE 0
StartAnyPort ==
  /\ Main("init")
  /\ TRUE \in LoadOK(file)
  /\ config' = file
  /\ listening' = PortOrZero(GetConfigValue(file, "listenport"))
  /\ serverRunning' = TRUE
  /\ mainPc' = "start"
  /\ UNCHANGED <<process, file, ioThread, mutex, awake, stopper, servMysql>>

\* Mutant: the flag is left to the new thread, which sets it when it gets to run.
StartInThread ==
  /\ Main("init")
  /\ TRUE \in LoadOK(file)
  /\ config' = file
  /\ mainPc' = "start"
  /\ UNCHANGED <<process, file, listening, ioThread, condition, stopper, servMysql>>

\* TcpServer::Init, and Start's first statement: the flag is set, without serverMutex_
\* and whatever it was.
Start ==
  LET port == GetConfigValue(file, "listenport") IN
  /\ Main("init")
  /\ TRUE \in LoadOK(file)
  /\ port \in Int
  /\ GetConfigValue(file, "listenip") \in Address
  /\ config' = file
  /\ listening' = ToUint16(ToShort(port))
  /\ serverRunning' = TRUE
  /\ mainPc' = "start"
  /\ UNCHANGED <<process, file, ioThread, mutex, awake, stopper, servMysql>>

StartThread ==
  /\ Main("start")
  /\ ioThread' = "serving"
  /\ mainPc' = "mysql"
  /\ UNCHANGED <<process, configuration, condition, stopper, servMysql>>

MakeMysql ==
  /\ Main("mysql")
  /\ servMysql' = "unconnected"
  /\ mainPc' = "configure"
  /\ UNCHANGED <<process, configuration, ioThread, condition, stopper>>

Endpoint == GetConfigValue(file, "mysqlhost") \in Address /\ GetConfigValue(file, "mysqlport") \in Int

\* The second reading: no file, or a host that is no address or a port that is no
\* number, which throws before the try block.
ConfigureThrows ==
  /\ Main("configure")
  /\ FALSE \in LoadOK(file) \/ ~Endpoint
  /\ running' = FALSE
  /\ UNCHANGED <<ioc, configuration, mainPc, ioThread, condition, stopper, servMysql>>

\* bInit_ has not been initialised; if it happens to be TRUE nothing is done.
Configure ==
  /\ Main("configure")
  /\ TRUE \in LoadOK(file)
  /\ \/ Endpoint /\ mainPc' = "connect" /\ servMysql' = "connecting"
     \/ mainPc' = "wait" /\ UNCHANGED servMysql
  /\ UNCHANGED <<process, configuration, ioThread, condition, stopper>>

\* Mutant: main does not wait for the outcome.
ConnectInBackground ==
  /\ Main("connect")
  /\ servMysql' \in {"connecting", "connected"}
  /\ mainPc' = "wait"
  /\ UNCHANGED <<process, configuration, ioThread, condition, stopper>>

\* connect and a first query succeed, or a system_error of either is caught and
\* logged; the server goes on with whatever connection there is.
Connect ==
  /\ Main("connect")
  /\ servMysql' \in {"connected", "unconnected"}
  /\ mainPc' = "wait"
  /\ UNCHANGED <<process, configuration, ioThread, condition, stopper>>

\* The first query prints the second row of t_user; without one, out_of_range.
ConnectThrows ==
  /\ Main("connect")
  /\ running' = FALSE
  /\ UNCHANGED <<ioc, configuration, mainPc, ioThread, condition, stopper, servMysql>>

-----------------------------------------------------------------------------
(* WaitForServerToStop: serverCond_.wait(lock, predicate). *)

WaitLock ==
  /\ Main("wait")
  /\ mutex = "free"
  /\ mutex' = "main"
  /\ mainPc' = "check"
  /\ UNCHANGED <<process, configuration, ioThread, serverRunning, awake, stopper, servMysql>>

WaitCheck ==
  /\ Main("check")
  /\ mainPc' = IF serverRunning THEN "block" ELSE "return"
  /\ mutex' = IF serverRunning THEN mutex ELSE "free"
  /\ UNCHANGED <<process, configuration, ioThread, serverRunning, awake, stopper, servMysql>>

\* The lock is released and the thread blocks, in one step.
WaitBlock ==
  /\ Main("block")
  /\ mutex' = "free"
  /\ awake' = FALSE
  /\ mainPc' = "blocked"
  /\ UNCHANGED <<process, configuration, ioThread, serverRunning, stopper, servMysql>>

\* Woken, and the lock taken again before the predicate is looked at.
WaitWake ==
  /\ Main("blocked")
  /\ awake /\ mutex = "free"
  /\ mutex' = "main"
  /\ mainPc' = "check"
  /\ UNCHANGED <<process, configuration, ioThread, serverRunning, awake, stopper, servMysql>>

\* A condition variable may wake for no reason.
WaitSpurious ==
  /\ Main("blocked")
  /\ ~awake
  /\ awake' = TRUE
  /\ UNCHANGED <<process, configuration, mainPc, ioThread, serverRunning, mutex, stopper, servMysql>>

\* Return from main: the io_context, a static, is destroyed, and the process ends;
\* the server, which Singleton allocated, is not, so no thread is joined.
MainReturns ==
  /\ Main("return")
  /\ ioc' = "destroyed"
  /\ UNCHANGED <<running, configuration, mainPc, ioThread, condition, stopper, servMysql>>

-----------------------------------------------------------------------------
(* Stop. *)

\* Mutant: the flag is set without the mutex.
StopSetUnlocked ==
  /\ Stopper("idle")
  /\ serverRunning' = FALSE
  /\ stopAsked' = TRUE
  /\ stopPc' = "notify"
  /\ UNCHANGED <<process, configuration, mainPc, ioThread, mutex, awake, servMysql>>

\* At any time, also before Start, which then sets the flag again: that Stop is lost.
StopSet ==
  /\ Stopper("idle")
  /\ mutex = "free"
  /\ serverRunning' = FALSE
  /\ stopAsked' = TRUE
  /\ stopPc' = "notify"
  /\ UNCHANGED <<process, configuration, mainPc, ioThread, mutex, awake, servMysql>>

\* notify_one wakes the main thread if it is blocked, and is lost otherwise.
StopNotify ==
  /\ Stopper("notify")
  /\ awake' = (awake \/ mainPc = "blocked")
  /\ stopPc' = "join"
  /\ UNCHANGED <<process, configuration, mainPc, ioThread, serverRunning, mutex, stopAsked, servMysql>>

\* TcpServer::Stop: a thread that does not exist is not joinable.  One that does is
\* joined for ever, as run() always has work: the accept and the heartbeat are armed.
StopReturns ==
  /\ Stopper("join") /\ ioThread = "none"
  /\ stopPc' = "returned"
  /\ UNCHANGED <<process, configuration, mainPc, ioThread, condition, stopAsked, servMysql>>

-----------------------------------------------------------------------------
(* The io thread: a request that needs the database, a login or an image.  One *)
(* that is answered, and one whose query fails (a system_error is caught, and   *)
(* taken for a "no"), change nothing here.                                      *)

Serves == running /\ ioc = "alive" /\ ioThread = "serving"

\* A null servMysql_ is dereferenced, or a connection is used by both threads at a
\* time: undefined, and the process may not survive it.
RequestCrashes ==
  /\ Serves
  /\ servMysql \in {"null", "connecting"}
  /\ running' = FALSE
  /\ UNCHANGED <<ioc, configuration, mainPc, ioThread, condition, stopper, servMysql>>

\* A query succeeds, and its result is not what the image server takes it for: a
\* download of an id without a row, an avatar that is NULL.  Nothing catches it.
RequestThrows ==
  /\ Serves
  /\ servMysql = "connected"
  /\ running' = FALSE
  /\ UNCHANGED <<ioc, configuration, mainPc, ioThread, condition, stopper, servMysql>>

-----------------------------------------------------------------------------

InitServer ==
  \/ InitThrows \/ Start \/ StartThread
  \/ MakeMysql \/ ConfigureThrows \/ Configure \/ Connect \/ ConnectThrows
WaitForServerToStop == WaitLock \/ WaitCheck \/ WaitBlock \/ WaitWake \/ MainReturns
Stop == StopSet \/ StopNotify \/ StopReturns
Request == RequestCrashes \/ RequestThrows

Next ==
  \/ EditFile
  \/ InitServer
  \/ WaitForServerToStop
  \/ WaitSpurious
  \/ Stop
  \/ Request

Spec == Init /\ [][Next]_vars

\* The operating system schedules both threads; nothing obliges one to call Stop.
Fairness ==
  /\ WF_vars(InitServer)
  /\ WF_vars(WaitForServerToStop)
  /\ WF_vars(StopNotify)

FairSpec == Spec /\ Fairness

-----------------------------------------------------------------------------
(* Properties. *)

\* The variables keep their shape.
TypeOK ==
  /\ running \in BOOLEAN
  /\ file \in Files
  /\ config \in Files \cup {Missing}
  /\ listening \in Uint16 \cup {NoPort}
  /\ mainPc \in {"init", "start", "mysql", "configure", "connect",
                 "wait", "check", "block", "blocked", "return"}
  /\ ioThread \in {"none", "serving"}
  /\ serverRunning \in BOOLEAN
  /\ mutex \in {"free", "main"}
  /\ awake \in BOOLEAN
  /\ stopPc \in {"idle", "notify", "join", "returned"}
  /\ stopAsked \in BOOLEAN
  /\ servMysql \in {"null", "unconnected", "connecting", "connected"}
  /\ ioc \in {"alive", "destroyed"}

\* A server listens only on the port that the file said when main read it: not if
\* there was none to read, whatever the flag of the reader happens to be, and with
\* every port of 16 bits, though the number passes through a signed short.
ListensAsConfigured ==
  listening # NoPort =>
    /\ config # Missing
    /\ LET port == GetConfigValue(config, "listenport") IN
         port \in Int /\ (port \in Uint16 => listening = port)

\* The main thread stays, and the io_context with it, until somebody asks the server
\* to stop: it cannot look at the flag before the start has set it.
StaysUntilStopped == mainPc = "return" \/ ioc = "destroyed" => stopAsked

\* The notification comes after the flag and is not lost between the look at the flag
\* and the wait: if the flag is down while the main thread is blocked, that has been
\* woken or the notification is still to come.
WakeupNotLost == mainPc = "blocked" /\ ~serverRunning => awake \/ stopPc = "notify"

\* A request may find the database missing or half connected only while the server
\* starts: once the main thread waits, what ends the process is an answer of a
\* database that is connected.
Starting == {"init", "start", "mysql", "configure", "connect"}
SettledOnceWaiting ==
  [][running' # running /\ mainPc \notin Starting => servMysql = "connected"]_vars

\* A Stop whose flag Start does not set again, so one that comes after that, is
\* noticed, whatever the main thread is doing by then: it returns.
StopIsNoticed == ~serverRunning /\ mainPc # "init" ~> ioc = "destroyed" \/ ~running

\* "When main ends the ioc is destroyed, and the thread does not run correctly; main
\* must wait for the server to end" (main.cpp): the io_context is there as long as
\* the io thread runs.
IocOutlivesThread == ioc = "destroyed" => ioThread # "serving"
=============================================================================
