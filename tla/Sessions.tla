------------------------------ MODULE Sessions ------------------------------
(***************************************************************************)
(* router/src/sessions.cpp and router/include/session.h: the registry of   *)
(* connected clients.  A Session object is created once per accepted       *)
(* connection, so it is named by the connection it was created for; the    *)
(* object outlives its removal from the maps as long as a worker thread    *)
(* holds a shared_ptr to it, which is why its fields stay in socket_, id_  *)
(* and mutex_.                                                             *)
(*                                                                         *)
(* Every method runs under sessions_mutex_ from its first to its last      *)
(* line, so each one is a single step, enabled while the mutex is free.    *)
(* The exceptions: get_accpeted_sockets() takes no lock (see ResetBegin    *)
(* and ResetEnd of module Router), and accept_client(), which on one path  *)
(* calls removeSession() and so locks the non-recursive mutex twice: the   *)
(* caller then sleeps for ever with the mutex held.                        *)
(*                                                                         *)
(* The operators below are named after the methods and say what a call     *)
(* does to the registry; module Router takes them as steps of its threads. *)
(***************************************************************************)
EXTENDS Integers, Sequences, FiniteSets, SequencesExt

CONSTANTS
    Conns,              \* connections, and the Session objects made for them
    Sockets,            \* client descriptors the process can have open
    Values,             \* the numbers std::stoi finds in a chunk of text
    Readers,            \* read worker threads
    Writers,            \* write worker threads
    nullptr,            \* no session, no descriptor, no thread
    MAX_CLIENTS_COUNT   \* node ids from here on are refused

NONE == -1

Workers == Readers \cup Writers

ASSUME RegistryAssumption ==
    /\ nullptr \notin Conns \cup Sockets \cup Workers
    /\ Readers \cap Writers = {}
    /\ Values \subseteq Int
    /\ NONE \in Values
    /\ MAX_CLIENTS_COUNT \in Nat

VARIABLES
    sessions_by_socket_,    \* [Sockets -> Conns \cup {nullptr}]
    sessions_by_id_,        \* [Values -> Conns \cup {nullptr}]
    accepted_clients_,      \* sequence of sockets, watched by select()
    sessions_mutex_,        \* "held": somebody sleeps with it locked
    socket_,                \* socket_[c]: field of the session of c
    id_,                    \* id_[c]: field of the session of c
    mutex_                  \* mutex_[c]: the worker that holds its mutex

maps == <<sessions_by_socket_, sessions_by_id_, accepted_clients_>>
registry == <<maps, sessions_mutex_>>
objects == <<socket_, id_, mutex_>>

SessionsTypeOK ==
    /\ sessions_by_socket_ \in [Sockets -> Conns \cup {nullptr}]
    /\ sessions_by_id_ \in [Values -> Conns \cup {nullptr}]
    /\ accepted_clients_ \in Seq(Sockets)
    /\ sessions_mutex_ \in {"free", "held"}
    /\ socket_ \in [Conns -> Sockets \cup {nullptr}]
    /\ id_ \in [Conns -> Values]
    /\ mutex_ \in [Conns -> Workers \cup {nullptr}]

SessionsInit ==
    /\ sessions_by_socket_ = [s \in Sockets |-> nullptr]
    /\ sessions_by_id_ = [i \in Values |-> nullptr]
    /\ accepted_clients_ = <<>>
    /\ sessions_mutex_ = "free"
    /\ socket_ = [c \in Conns |-> nullptr]
    /\ id_ = [c \in Conns |-> NONE]
    /\ mutex_ = [c \in Conns |-> nullptr]

\* Every method first takes sessions_mutex_.
RegistryFree == sessions_mutex_ = "free"

-----------------------------------------------------------------------------
\* accept_client(): a socket that still has a session makes the method call
\* removeSession() under its own lock.
accept_client(socket, c) ==
    /\ RegistryFree
    /\ accepted_clients_' = IF Contains(accepted_clients_, socket)
                            THEN accepted_clients_
                            ELSE Append(accepted_clients_, socket)
    /\ IF sessions_by_socket_[socket] # nullptr
       THEN /\ sessions_mutex_' = "held"
            /\ UNCHANGED <<sessions_by_socket_, socket_>>
       ELSE /\ sessions_by_socket_' = [sessions_by_socket_ EXCEPT ![socket] = c]
            /\ socket_' = [socket_ EXCEPT ![c] = socket]
            /\ UNCHANGED sessions_mutex_
    /\ UNCHANGED <<sessions_by_id_, id_, mutex_>>

find_session_by_socket(socket) == sessions_by_socket_[socket]

find_session_by_id(node_id) == sessions_by_id_[node_id]

\* add_node(): an id in use is only logged, the newer session replaces the
\* older one in the map.
add_node(socket, node_id) ==
    /\ RegistryFree
    /\ LET session == sessions_by_socket_[socket] IN
       IF session = nullptr \/ node_id >= MAX_CLIENTS_COUNT
       THEN UNCHANGED <<sessions_by_id_, id_>>
       ELSE /\ id_' = [id_ EXCEPT ![session] = node_id]
            /\ sessions_by_id_' = [sessions_by_id_ EXCEPT ![node_id] = session]
    /\ UNCHANGED <<sessions_by_socket_, accepted_clients_, sessions_mutex_,
                   socket_>>

\* MUTANT of removeSession: the vector of watched sockets is forgotten.
removeSessionKeepsAccepted(socket) ==
    /\ RegistryFree
    /\ LET session == sessions_by_socket_[socket] IN
       sessions_by_id_' =
           IF session # nullptr /\ id_[session] # NONE
           THEN [sessions_by_id_ EXCEPT ![id_[session]] = nullptr]
           ELSE sessions_by_id_
    /\ sessions_by_socket_' = [sessions_by_socket_ EXCEPT ![socket] = nullptr]
    /\ UNCHANGED <<accepted_clients_, sessions_mutex_, socket_, id_>>

\* MUTANT of removeSession: the entry under the node id is forgotten.
removeSessionKeepsId(socket) ==
    /\ RegistryFree
    /\ sessions_by_socket_' = [sessions_by_socket_ EXCEPT ![socket] = nullptr]
    /\ accepted_clients_' = RemoveFirst(accepted_clients_, socket)
    /\ UNCHANGED <<sessions_by_id_, sessions_mutex_, socket_, id_>>

\* removeSession(): the entry under the session's id goes, whichever session
\* it names by now; the descriptor itself is not closed.
removeSession(socket) ==
    /\ RegistryFree
    /\ LET session == sessions_by_socket_[socket] IN
       sessions_by_id_' =
           IF session # nullptr /\ id_[session] # NONE
           THEN [sessions_by_id_ EXCEPT ![id_[session]] = nullptr]
           ELSE sessions_by_id_
    /\ sessions_by_socket_' = [sessions_by_socket_ EXCEPT ![socket] = nullptr]
    /\ accepted_clients_' = RemoveFirst(accepted_clients_, socket)
    /\ UNCHANGED <<sessions_mutex_, socket_, id_>>

-----------------------------------------------------------------------------
\* The session of c is in the registry.
Registered(c) ==
    /\ socket_[c] # nullptr
    /\ sessions_by_socket_[socket_[c]] = c

\* A registered session whose id no other session ever got is found by it.
OwnIdResolves ==
    \A c \in Conns :
        /\ Registered(c)
        /\ id_[c] # NONE
        /\ \A d \in Conns \ {c} : id_[d] # id_[c]
        => sessions_by_id_[id_[c]] = c

\* The three containers agree: accepted_clients_ lists each socket that has a
\* session exactly once, a session is stored under its own socket, and under
\* its id as well unless another one claimed that id too.
ContainersAgree ==
    /\ ToSet(accepted_clients_) =
          {s \in Sockets : sessions_by_socket_[s] # nullptr}
    /\ IsInjective(accepted_clients_)
    /\ \A s \in Sockets :
          sessions_by_socket_[s] # nullptr => socket_[sessions_by_socket_[s]] = s
    /\ OwnIdResolves

\* Looking a node id up never yields a removed session, nor one that
\* registered under another id (the key NONE, under which add_node() stores a
\* client whose id message is not a number, excepted).
IdsResolveToLiveSessions ==
    \A i \in Values \ {NONE} :
        LET c == sessions_by_id_[i] IN
        c # nullptr => id_[c] = i /\ Registered(c)
=============================================================================
