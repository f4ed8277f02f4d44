------------------------------ MODULE Startup ------------------------------
(***************************************************************************)
(* router/main.cpp, Router::start() up to the event loop, and              *)
(* TcpServer::start_tcp_server(): from a process that is started to a      *)
(* router that serves, with what can fail on the way.  The command line is *)
(* a port number.                                                          *)
(***************************************************************************)
EXTENDS Integers

CONSTANT THREAD_COUNT   \* 4 in the code

ASSUME ThreadCountAssumption == THREAD_COUNT \in Nat

VARIABLES
    router,     \* where main() is: "down" before and after the process; "up"
                \* in the event loop, or "deaf" there if listen() has failed
    readers,    \* read workers that run
    writers     \* write workers that run

startup == <<router, readers, writers>>

Stages == {"down", "spawn", "socket", "bind", "listen", "up", "deaf"}

StartupInit ==
    /\ router = "down"
    /\ readers = 0
    /\ writers = 0

\* main() calls start().
Main ==
    /\ router = "down"
    /\ router' = "spawn"
    /\ UNCHANGED <<readers, writers>>

\* MUTANT of read_thread_count: one half, and the odd thread as well.
read_thread_count_Up == THREAD_COUNT - THREAD_COUNT \div 2 + 1

read_thread_count ==
    IF THREAD_COUNT % 2 = 1 THEN THREAD_COUNT \div 2 + 1 ELSE THREAD_COUNT \div 2

SpawnReader ==
    /\ router = "spawn"
    /\ readers < read_thread_count
    /\ readers' = readers + 1
    /\ UNCHANGED <<router, writers>>

SpawnWriter ==
    /\ router = "spawn"
    /\ readers >= read_thread_count
    /\ readers + writers < THREAD_COUNT
    /\ writers' = writers + 1
    /\ UNCHANGED <<router, readers>>

\* init_sessions() reserves memory; start_tcp_server() is called.
InitSessions ==
    /\ router = "spawn"
    /\ readers + writers >= THREAD_COUNT
    /\ router' = "socket"
    /\ UNCHANGED <<readers, writers>>

\* WSAStartup() and socket()
OpenSocket ==
    /\ router = "socket"
    /\ router' = "bind"
    /\ UNCHANGED <<readers, writers>>

Bind ==
    /\ router = "bind"
    /\ router' = "listen"
    /\ UNCHANGED <<readers, writers>>

Listen ==
    /\ router = "listen"
    /\ router' = "up"
    /\ UNCHANGED <<readers, writers>>

\* The result of listen() is not looked at.
ListenFails ==
    /\ router = "listen"
    /\ router' = "deaf"
    /\ UNCHANGED <<readers, writers>>

\* The process ends.
Stop ==
    /\ router' = "down"
    /\ readers' = 0
    /\ writers' = 0

\* A thread cannot be created, or start_tcp_server() returns SOCKET_ERROR.
\* Either way start() is left, by an exception or with -1, and with it the
\* vector of threads is destroyed: std::terminate() if one of them is running.
StartFails ==
    /\ router \in {"spawn", "socket", "bind"}
    /\ router = "spawn" => readers + writers < THREAD_COUNT
    /\ Stop

Boot ==
    \/ Main
    \/ SpawnReader
    \/ SpawnWriter
    \/ InitSessions
    \/ OpenSocket
    \/ Bind
    \/ Listen
=============================================================================
