------------------------------- MODULE FdCache -------------------------------
(***************************************************************************)
(* How the threads of a client get the Unix fd of a file handle            *)
(* (wine_server_handle_to_fd in dlls/ntdll/server.c, NtClose in            *)
(* dlls/ntdll/om.c): the server sends the fd over a socket of the process, *)
(* the client stores its number in the server's handle entry and later     *)
(* callers duplicate that number (server/fd.c, server/handle.c).           *)
(*                                                                         *)
(* A step is one request or one call of the kernel.  Handles and fds are   *)
(* given out lowest first.  Devices are not removable, handles are not     *)
(* global and access is granted.                                           *)
(***************************************************************************)
EXTENDS Naturals, Sequences

CONSTANTS
  Threads,
  Files,      \* the files that are opened
  MaxHandle,  \* bound: handles are 1..MaxHandle
  MaxFd,      \* bound: fds are 1..MaxFd
  None

Handles == 1..MaxHandle
Fds == 1..MaxFd
NoFd == 0         \* -1 in the code

VARIABLES
  ptr,       \* entry->ptr of each handle: the file
  cached,    \* entry->fd of each handle
  fds,       \* the fd table of the client process: the file each fd is open on
  socket,    \* fd_socket: the fds on their way, each with its handle
  section,   \* the owner of fd_cache_section
  pc,        \* what each thread does next
  arg,       \* the handle it asks for
  fd         \* its variable fd

vars == <<ptr, cached, fds, socket, section, pc, arg, fd>>

Init ==
  /\ ptr = [h \in Handles |-> None]
  /\ cached = [h \in Handles |-> NoFd]
  /\ fds = [n \in Fds |-> None]
  /\ socket = <<>>
  /\ section = None
  /\ pc = [t \in Threads |-> "app"]
  /\ arg = [t \in Threads |-> 1]
  /\ fd = [t \in Threads |-> NoFd]

Lowest(table, i) == table[i] = None /\ \A j \in 1..(i - 1) : table[j] # None
Goto(t, p) == pc' = [pc EXCEPT ![t] = p]

\* The call ends and returns fd n.
Leave(t, n) ==
  /\ section' = None
  /\ fd' = [fd EXCEPT ![t] = n]
  /\ Goto(t, IF n = NoFd THEN "app" ELSE "use")

\* A file is opened: alloc_handle.
Open(t, f) ==
  /\ pc[t] = "app"
  /\ \E h \in Handles : Lowest(ptr, h) /\ ptr' = [ptr EXCEPT ![h] = f]
  /\ UNCHANGED <<cached, fds, socket, section, pc, arg, fd>>

\* wine_server_handle_to_fd enters the section ...
Enter(t, h) ==
  /\ pc[t] = "app" /\ section = None
  /\ section' = t
  /\ arg' = [arg EXCEPT ![t] = h]
  /\ Goto(t, "get")
  /\ UNCHANGED <<ptr, cached, fds, socket, fd>>

\* ... and asks for the handle's fd (get_handle_fd): a cached one, or the server sends it.
Get(t) ==
  /\ pc[t] = "get"
  /\ LET h == arg[t]
     IN  \/ /\ ptr[h] = None
            /\ Leave(t, NoFd)
            /\ UNCHANGED socket
         \/ /\ ptr[h] # None /\ cached[h] # NoFd
            /\ fd' = [fd EXCEPT ![t] = cached[h]]
            /\ Goto(t, "dup")
            /\ UNCHANGED <<section, socket>>
         \/ /\ ptr[h] # None /\ cached[h] = NoFd
            /\ socket' = Append(socket, [handle |-> h, file |-> ptr[h]])
            /\ Goto(t, "receive")
            /\ UNCHANGED <<section, fd>>
  /\ UNCHANGED <<ptr, cached, fds, arg>>

\* dup, which fails when the fd is not open.
Dup(t) ==
  /\ pc[t] = "dup"
  /\ \/ /\ fds[fd[t]] = None
        /\ Leave(t, NoFd)
        /\ UNCHANGED fds
     \/ /\ fds[fd[t]] # None
        /\ \E n \in Fds : /\ Lowest(fds, n)
                          /\ fds' = [fds EXCEPT ![n] = fds[fd[t]]]
                          /\ Leave(t, n)
  /\ UNCHANGED <<ptr, cached, socket, arg>>

\* receive_fd: the kernel gives the fd a number in this process.
Receive(t) ==
  /\ pc[t] = "receive" /\ socket # <<>>
  /\ \E n \in Fds : /\ Lowest(fds, n)
                    /\ fds' = [fds EXCEPT ![n] = Head(socket).file]
                    /\ fd' = [fd EXCEPT ![t] = n]
  /\ socket' = Tail(socket)
  /\ Goto(t, "set")
  /\ UNCHANGED <<ptr, cached, section, arg>>

\* set_handle_fd: the number goes into the handle's entry unless one is there, and the
\* client duplicates what is there.  No other thread is between Get and Set, so the handle
\* received is the one asked for.
Set(t) ==
  /\ pc[t] = "set"
  /\ LET h == arg[t]
         cur == IF cached[h] = NoFd THEN fd[t] ELSE cached[h]
     IN  \/ /\ ptr[h] = None
            /\ fds' = [fds EXCEPT ![fd[t]] = None]
            /\ Leave(t, NoFd)
            /\ UNCHANGED cached
         \/ /\ ptr[h] # None
            /\ cached' = [cached EXCEPT ![h] = cur]
            /\ fds' = IF cur = fd[t] THEN fds ELSE [fds EXCEPT ![fd[t]] = None]
            /\ fd' = [fd EXCEPT ![t] = cur]
            /\ Goto(t, "dup")
            /\ UNCHANGED section
  /\ UNCHANGED <<ptr, socket, arg>>

\* wine_server_release_fd, or the close at the end of NtClose.
CloseFd(t) ==
  /\ pc[t] \in {"use", "close"}
  /\ fds' = [fds EXCEPT ![fd[t]] = None]
  /\ fd' = [fd EXCEPT ![t] = NoFd]
  /\ Goto(t, "app")
  /\ UNCHANGED <<ptr, cached, socket, section, arg>>

\* NtClose: close_handle clears the entry and returns the cached fd, which the client then
\* closes.  It does not enter the section.
CloseHandle(t, h) ==
  /\ pc[t] = "app" /\ ptr[h] # None
  /\ ptr' = [ptr EXCEPT ![h] = None]
  /\ cached' = [cached EXCEPT ![h] = NoFd]
  /\ fd' = [fd EXCEPT ![t] = cached[h]]
  /\ Goto(t, IF cached[h] = NoFd THEN "app" ELSE "close")
  /\ UNCHANGED <<fds, socket, section, arg>>

Next ==
  \E t \in Threads :
    \/ \E f \in Files : Open(t, f)
    \/ \E h \in Handles : Enter(t, h) \/ CloseHandle(t, h)
    \/ Get(t) \/ Dup(t) \/ Receive(t) \/ Set(t) \/ CloseFd(t)

Spec == Init /\ [][Next]_vars

-----------------------------------------------------------------------------
\* wine_server_handle_to_fd: "Retrieve the file descriptor corresponding to a file handle."
\* The fd that is cached for an open handle, and which every later call duplicates, is open
\* on the handle's file.
CacheExact ==
  \A h \in Handles : ptr[h] # None /\ cached[h] # NoFd => fds[cached[h]] = ptr[h]
=============================================================================
