------------------------------- MODULE FdTable -------------------------------
(***************************************************************************)
(* The file descriptors of the HAL (alt_open.c, alt_close.c, alt_get_fd.c, *)
(* alt_release_fd.c, alt_fd_lock.c, alt_fd_unlock.c, alt_ioctl.c and       *)
(* alt_io_redirect.c): allocation, the high-water mark that bounds the     *)
(* searches, and exclusive access to a device.  There is one thread; what  *)
(* is hard is the order of the calls.                                      *)
(***************************************************************************)
EXTENDS Integers, Sequences

CONSTANTS
  Devices,      \* registered devices besides /dev/null
  Console,      \* the one standard input and output are redirected to
  ALT_MAX_FD    \* descriptors: 32

ASSUME FdAssumption ==
  /\ Console \in Devices /\ "/dev/null" \notin Devices /\ "none" \notin Devices
  /\ ALT_MAX_FD \in Nat /\ ALT_MAX_FD > 3

VARIABLES
  alt_fd_list,   \* for each descriptor its device and whether it is locked
  alt_max_fd,    \* the highest descriptor allocated so far
  redirect,      \* standard descriptors still to be redirected at start-up
  status         \* what the last call returned

fdVars == <<alt_fd_list, alt_max_fd, redirect, status>>

Fds == 0 .. ALT_MAX_FD - 1
Std == 0 .. 2
AllDevices == Devices \cup {"/dev/null"}

Free == [dev |-> "none", excl |-> FALSE]
Of(dev) == [dev |-> dev, excl |-> FALSE]
Open(fd) == alt_fd_list[fd].dev # "none"

FdInit ==
  /\ alt_fd_list = [fd \in Fds |-> IF fd \in Std THEN Of("/dev/null") ELSE Free]
  /\ alt_max_fd = -1
  /\ redirect = <<1, 0, 2>>
  /\ status = "ok"

\* The first free descriptor.
FirstFree(fd) == ~Open(fd) /\ \A i \in Fds : i < fd => Open(i)

AtLeast(a, b) == IF a < b THEN b ELSE a

\* Mutant: the search ends before the highest descriptor.
MutFileLocked(dev, fd, max) ==
  \E i \in Fds : i < max /\ i # fd /\ alt_fd_list[i].dev = dev /\ alt_fd_list[i].excl

\* Whether a descriptor up to the mark holds dev locked.
alt_file_locked(dev, fd, max) ==
  \E i \in Fds : i <= max /\ i # fd /\ alt_fd_list[i].dev = dev /\ alt_fd_list[i].excl

\* Mutant: the mark follows the last descriptor instead of the highest.
MutGetFd(fd) == alt_max_fd' = fd

\* alt_get_fd raises the mark; it stays raised if open then fails.
alt_get_fd(fd) == alt_max_fd' = AtLeast(alt_max_fd, fd)

alt_open(dev) ==
  /\ redirect = <<>>
  /\ \/ /\ \A fd \in Fds : Open(fd)
        /\ status' = "EMFILE" /\ UNCHANGED <<alt_fd_list, alt_max_fd>>
     \/ \E fd \in {f \in Fds : FirstFree(f)} :
          /\ alt_get_fd(fd)
          /\ IF alt_file_locked(dev, fd, alt_max_fd')
             THEN status' = "EACCES" /\ UNCHANGED alt_fd_list
             ELSE status' = "ok" /\ alt_fd_list' = [alt_fd_list EXCEPT ![fd] = Of(dev)]
  /\ UNCHANGED redirect

\* alt_open_fd: a descriptor is opened, copied into a standard one, released.
alt_io_redirect ==
  /\ redirect # <<>>
  /\ \E fd \in {f \in Fds : FirstFree(f)} : alt_get_fd(fd)
  /\ alt_fd_list' = [alt_fd_list EXCEPT ![Head(redirect)] = Of(Console)]
  /\ redirect' = Tail(redirect)
  /\ UNCHANGED status

\* Standard descriptors are never released.
alt_release_fd(fd) ==
  alt_fd_list' = [alt_fd_list EXCEPT ![fd] = IF fd \in Std THEN @ ELSE Free]

\* The console's close may report that it would block; the descriptor is
\* released all the same.
alt_close(fd) ==
  /\ redirect = <<>> /\ Open(fd)
  /\ alt_release_fd(fd)
  /\ \/ status' = "ok"
     \/ alt_fd_list[fd].dev = Console /\ status' = "EWOULDBLOCK"
  /\ UNCHANGED <<alt_max_fd, redirect>>

\* ioctl(fd, TIOCEXCL): every descriptor below the mark is searched, the one
\* at the mark is not.
alt_fd_lock(fd) ==
  /\ redirect = <<>> /\ Open(fd)
  /\ IF \E i \in Fds : i < alt_max_fd /\ i # fd /\ alt_fd_list[i].dev = alt_fd_list[fd].dev
     THEN status' = "EACCES" /\ UNCHANGED alt_fd_list
     ELSE status' = "ok" /\ alt_fd_list' = [alt_fd_list EXCEPT ![fd].excl = TRUE]
  /\ UNCHANGED <<alt_max_fd, redirect>>

\* ioctl(fd, TIOCNXCL).
alt_fd_unlock(fd) ==
  /\ redirect = <<>> /\ Open(fd)
  /\ alt_fd_list' = [alt_fd_list EXCEPT ![fd].excl = FALSE]
  /\ status' = "ok"
  /\ UNCHANGED <<alt_max_fd, redirect>>

FdNext ==
  \/ alt_io_redirect
  \/ \E dev \in AllDevices : alt_open(dev)
  \/ \E fd \in Fds : alt_close(fd) \/ alt_fd_lock(fd) \/ alt_fd_unlock(fd)

FdSpec == FdInit /\ [][FdNext]_fdVars

-----------------------------------------------------------------------------
FdTypeOK ==
  /\ alt_fd_list \in [Fds -> [dev : AllDevices \cup {"none"}, excl : BOOLEAN]]
  /\ alt_max_fd \in -1 .. ALT_MAX_FD - 1
  /\ redirect \in {<<1, 0, 2>>, <<0, 2>>, <<2>>, <<>>}
  /\ status \in {"ok", "EMFILE", "EACCES", "EWOULDBLOCK"}
  /\ \A fd \in Fds \ Std : ~Open(fd) => alt_fd_list[fd] = Free

(***************************************************************************)
(* No open descriptor is above the high-water mark, once the standard ones *)
(* are redirected (alt_get_fd.c:66-75), so that the search of alt_open,    *)
(* which looks at the mark too (alt_open.c:79), misses none.  The search   *)
(* of alt_fd_lock stops in front of the mark: see LockGrantedAlone.        *)
(***************************************************************************)
MarkCoversAll == redirect = <<>> => \A fd \in Fds : Open(fd) => fd <= alt_max_fd

(***************************************************************************)
(* "Further calls to open() for this device will fail until the lock is    *)
(* released": no descriptor is opened for a device that another one holds  *)
(* locked, through any order of opening, closing and locking               *)
(* (alt_fd_lock.c:44-49, alt_open.c:64-92).                                *)
(***************************************************************************)
LockKeepsOthersOut ==
  [][\A fd \in Fds : ~Open(fd) /\ Open(fd)' =>
       ~\E i \in Fds : alt_fd_list[i].excl /\ alt_fd_list[i].dev = alt_fd_list'[fd].dev]_fdVars

(***************************************************************************)
(* alt_fd_lock.c:43-44: "If there are no other open file descriptors which *)
(* reference the same device, then alt_fd_lock() will grant the lock" - a  *)
(* lock is granted only then.  The loop of alt_fd_lock.c:61 misses the     *)
(* descriptor at the high-water mark.                                      *)
(***************************************************************************)
LockGrantedAlone ==
  [][\A fd \in Fds : ~alt_fd_list[fd].excl /\ alt_fd_list'[fd].excl =>
       \A i \in Fds \ {fd} : alt_fd_list[i].dev # alt_fd_list[fd].dev]_fdVars
=============================================================================
