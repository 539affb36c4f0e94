----------------------------- MODULE RandScheme -----------------------------
(***************************************************************************)
(* The main scheme of the gtrand service: its table of open files and the  *)
(* permissions checked on it.  The random numbers themselves, and with     *)
(* them the state of the generator, are left out.                          *)
(*                                                                         *)
(* A mode is the record of what it grants to the owner, the group and the  *)
(* others; the access of an open is the set of the operations its flags    *)
(* ask for (O_RDWR is both, O_STAT alone is none).                         *)
(***************************************************************************)
EXTENDS Integers

CONSTANTS
    Users,      \* users, as records of a uid and a gid
    NoUser,     \* no open file of that number
    StUid,      \* owner of the scheme
    StGid,      \* group of the scheme
    Mode,       \* what the scheme's mode grants
    IdMod       \* number of values of a usize

Ops == {"read", "write"}

ASSUME RandAssumption ==
    /\ Users \subseteq [uid : Nat, gid : Nat]
    /\ NoUser \notin Users
    /\ Mode \in [{"owner", "group", "other"} -> SUBSET Ops]
    /\ IdMod \in Nat \ {0}

Ids == 0 .. IdMod - 1

OpenFiles == [Ids -> Users \cup {NoUser}]

\* The operations a user may perform on a file of the scheme.
Permission(u) ==
    UNION {Mode.other,
           IF u.uid = StUid THEN Mode.owner ELSE {},
           IF u.gid = StGid \/ StGid = 0 THEN Mode.group ELSE {},
           IF u.uid = 0 THEN Ops ELSE {}}

CanPerform(files, fd, op) == files[fd] # NoUser /\ op \in Permission(files[fd])

\* An open of one of the two paths, without O_CREAT | O_EXCL, is granted to users
\* with the permissions its flags ask for.
OpenOk(path, excl, access, u) ==
    path \in {"", "/urandom"} /\ ~excl /\ access \subseteq Permission(u)

\* The file number of the next open: the first after this one that is not in use.
NextFd(files, fd) ==
    LET step == CHOOSE k \in 1 .. IdMod :
                  /\ files[(fd + k) % IdMod] = NoUser
                  /\ \A j \in 1 .. k - 1 : files[(fd + j) % IdMod] # NoUser
    IN (fd + step) % IdMod

Opened(files, fd, u) == [files EXCEPT ![fd] = u]
CloseOk(files, fd) == files[fd] # NoUser
Closed(files, fd) == [files EXCEPT ![fd] = NoUser]
=============================================================================
