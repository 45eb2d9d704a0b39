------------------------------ MODULE Endpoint ------------------------------
(***************************************************************************)
(* Who serves a repository's socket.  A daemon that starts opens the lock  *)
(* file beside the socket, locks it, judges whatever is at the socket's    *)
(* path, binds and listens; one that stops removes the socket, then the    *)
(* lock file, then lets go of the lock.  Daemons start, stop and are       *)
(* killed in any order, and another may run between any two system calls.  *)
(*                                                                         *)
(* A process starts once.  A lock file is known by who created it and a    *)
(* socket by who bound it.                                                 *)
(***************************************************************************)
EXTENDS FiniteSets

CONSTANTS Servers, Nobody

ASSUME EndpointConstants == Nobody \notin Servers

VARIABLES
    phase,     \* where each process is
    opened,    \* the lock file it has open
    named,     \* the lock file at the lock's path
    socket,    \* the socket at its path
    detached   \* ghost: processes that locked a file which had lost its name

endpointVars == <<phase, opened, named, socket, detached>>

Phases == {"new", "lock", "check", "probe", "remove", "bind", "listen", "permit", "serve",
           "stop", "unname", "release", "over"}

\* Mutant: the lock is let go of before its file is removed.
LockedShort(s) ==
    phase[s] \in {"check", "probe", "remove", "bind", "listen", "permit", "serve", "stop"}

\* The lock ends with its holder.
Locked(s) ==
    phase[s] \in {"check", "probe", "remove", "bind", "listen", "permit", "serve", "stop",
                  "unname", "release"}

\* Listening ends with the process too; the socket's file stays.
Listening(s) == phase[s] \in {"permit", "serve", "stop", "unname", "release"}

Goes(s, next) == phase' = [phase EXCEPT ![s] = next]

-----------------------------------------------------------------------------
(* lock_ipc_endpoint                                                       *)

OpenLock(s) ==
    /\ phase[s] = "new"
    /\ named' = IF named = Nobody THEN s ELSE named
    /\ opened' = [opened EXCEPT ![s] = named']
    /\ Goes(s, "lock")
    /\ UNCHANGED <<socket, detached>>

Contended(s) == \E r \in Servers \ {s} : Locked(r) /\ opened[r] = opened[s]

TryLock(s) ==
    /\ phase[s] = "lock"
    /\ ~Contended(s)
    /\ detached' = IF opened[s] = named THEN detached ELSE detached \cup {s}
    /\ Goes(s, "check")
    /\ UNCHANGED <<opened, named, socket>>

\* Tried again within the window, and given up after it.
LockRefused(s) ==
    /\ phase[s] = "lock"
    /\ Contended(s)
    /\ Goes(s, "over")
    /\ UNCHANGED <<opened, named, socket, detached>>

-----------------------------------------------------------------------------
(* UnixIpcServer::bind                                                     *)

CheckPath(s) ==
    /\ phase[s] = "check"
    /\ Goes(s, IF socket = Nobody THEN "bind" ELSE "probe")
    /\ UNCHANGED <<opened, named, socket, detached>>

\* A refused connection, also to a socket that does not listen yet, is a stale
\* socket; an accepted one, or none in time, is a live one.
Probe(s) ==
    /\ phase[s] = "probe"
    /\ Goes(s, IF socket # Nobody /\ Listening(socket) THEN "over" ELSE "remove")
    /\ UNCHANGED <<opened, named, socket, detached>>

RemoveStale(s) ==
    /\ phase[s] = "remove"
    /\ Goes(s, IF socket = Nobody THEN "over" ELSE "bind")
    /\ socket' = Nobody
    /\ UNCHANGED <<opened, named, detached>>

Bind(s) ==
    /\ phase[s] = "bind"
    /\ Goes(s, IF socket = Nobody THEN "listen" ELSE "over")
    /\ socket' = IF socket = Nobody THEN s ELSE socket
    /\ UNCHANGED <<opened, named, detached>>

Listen(s) ==
    /\ phase[s] = "listen"
    /\ Goes(s, "permit")
    /\ UNCHANGED <<opened, named, socket, detached>>

\* set_permissions, by path.
Permit(s) ==
    /\ phase[s] = "permit"
    /\ Goes(s, IF socket = Nobody THEN "over" ELSE "serve")
    /\ UNCHANGED <<opened, named, socket, detached>>

-----------------------------------------------------------------------------
(* The end.  A signal, a replaced binary or an idle daemon: the loop breaks *)
(* and waits for the server to be dropped.                                  *)

StopServing(s) ==
    /\ phase[s] = "serve"
    /\ Goes(s, "stop")
    /\ UNCHANGED <<opened, named, socket, detached>>

\* remove_file of the path, whatever is there.
DropSocket(s) ==
    /\ phase[s] = "stop"
    /\ socket' = Nobody
    /\ Goes(s, "unname")
    /\ UNCHANGED <<opened, named, detached>>

DropName(s) ==
    /\ phase[s] = "unname"
    /\ named' = Nobody
    /\ Goes(s, "release")
    /\ UNCHANGED <<opened, socket, detached>>

Release(s) ==
    /\ phase[s] = "release"
    /\ Goes(s, "over")
    /\ UNCHANGED <<opened, named, socket, detached>>

Killed(s) ==
    /\ phase[s] \notin {"new", "over"}
    /\ Goes(s, "over")
    /\ UNCHANGED <<opened, named, socket, detached>>

-----------------------------------------------------------------------------
EndpointInit ==
    /\ phase = [s \in Servers |-> "new"]
    /\ opened = [s \in Servers |-> Nobody]
    /\ named = Nobody /\ socket = Nobody
    /\ detached = {}

EndpointNext ==
    \E s \in Servers :
        \/ OpenLock(s) \/ TryLock(s) \/ LockRefused(s)
        \/ CheckPath(s) \/ Probe(s) \/ RemoveStale(s) \/ Bind(s) \/ Listen(s) \/ Permit(s)
        \/ StopServing(s) \/ DropSocket(s) \/ DropName(s) \/ Release(s)
        \/ Killed(s)

EndpointSpec == EndpointInit /\ [][EndpointNext]_endpointVars

-----------------------------------------------------------------------------
(* Properties.                                                             *)

EndpointTypeOK ==
    /\ phase \in [Servers -> Phases]
    /\ opened \in [Servers -> Servers \cup {Nobody}]
    /\ named \in Servers \cup {Nobody} /\ socket \in Servers \cup {Nobody}
    /\ detached \subseteq Servers

\* The comment on UnixIpcServer: no daemon is left as "an orphaned listener that
\* answered nothing while still holding the store open".
ServersReachable == \A s \in Servers : phase[s] = "serve" => socket = s

\* What the order of Drop does give: a daemon is orphaned only once some process
\* has locked a lock file that had lost its name before it was locked.
OrphansFromDetached == detached = {} => ServersReachable
=============================================================================
