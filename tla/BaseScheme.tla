----------------------------- MODULE BaseScheme -----------------------------
(***************************************************************************)
(* A managed service: the scheme of the service (RandScheme) behind a      *)
(* BaseScheme, which adds five management schemes that a client reaches by *)
(* dup, and counts the requests on the main one.                           *)
(*                                                                         *)
(* The daemon takes one request at a time from its socket and answers it   *)
(* before the next, so a request is one action.  Clients hold their        *)
(* descriptors in slots; a descriptor remembers the id the service gave    *)
(* and the scheme that was asked for.                                      *)
(***************************************************************************)
EXTENDS RandScheme

CONSTANTS
    Slots,          \* descriptors of all clients
    NoFd,           \* a slot that is not in use
    NoSub,          \* an id that no handler has
    NoCounts,       \* the answer of a request that is no read of request_count
    Forged,         \* counts a client may write to request_count
    FirstMgmt,      \* first management id: 9999
    Low7,           \* values that seven bytes hold: 2^56
    MaxRequests     \* at most this many requests in a behaviour

ASSUME BaseAssumption ==
    /\ FirstMgmt \in Ids
    /\ Low7 \in Nat \ {0}
    /\ MaxRequests \in Nat

MgmtNames == {"pid", "time_stamp", "message", "request_count", "control"}
Subs == MgmtNames \cup {"main"}

Kinds == {"reads", "writes", "opens", "closes", "dups", "errors"}
Counts == [Kinds -> Nat]
Zero == [k \in Kinds |-> 0]

ASSUME NoBaseValueAssumption ==
    /\ NoFd \notin [id: Ids, sub: Subs]
    /\ NoSub \notin Subs
    /\ NoCounts \notin Counts
    /\ Forged \in Counts

VARIABLES
    files,          \* RandScheme.open_descriptors
    next_fd,        \* RandScheme.next_fd
    handlers,       \* BaseScheme.handlers
    next_mgmt_id,   \* BaseScheme.next_mgmt_id
    management,     \* the counters
    requests,       \* RequestsScheme: the snapshot of them that clients read
    control,        \* ControlScheme: stop and clear
    message,        \* MessageScheme
    fds,            \* the clients' descriptors
    alive,          \* the service has not panicked
    reply,          \* the last answer
    due,            \* counted requests answered since a clear was last written
    late,           \* those of them answered while that clear was still pending
    served          \* requests so far (a bound of the model)

vars == <<files, next_fd, handlers, next_mgmt_id, management, requests, control,
          message, fds, alive, reply, due, late, served>>

-----------------------------------------------------------------------------
Init ==
    /\ files = [i \in Ids |-> NoUser] /\ next_fd = 0
    /\ handlers = [i \in Ids |-> NoSub] /\ next_mgmt_id = FirstMgmt
    /\ management = Zero /\ requests = Zero
    /\ control = [stop |-> FALSE, clear |-> FALSE]
    /\ message = "starting!"
    /\ fds = [s \in Slots |-> NoFd]
    /\ alive = TRUE
    /\ reply = [op |-> "none", sub |-> NoSub, ok |-> TRUE, counts |-> NoCounts]
    /\ due = Zero /\ late = Zero
    /\ served = 0

Plus(counts, kind) == [counts EXCEPT ![kind] = @ + 1]

\* The counters after a request on scheme sub: only the main scheme's are counted.
Counted(counts, sub, kind, ok) ==
    IF sub # "main" THEN counts ELSE Plus(counts, IF ok THEN kind ELSE "errors")

\* Seven of the eight bytes of each counter.
Copied(counts) == [k \in Kinds |-> counts[k] % Low7]

\* Mutant of Updated: a clear resets the snapshot and forgets the counters.
UpdatedHalf ==
    IF control.clear THEN <<management, Zero>>
    ELSE IF control.stop THEN <<management, requests>>
    ELSE <<management, Copied(management)>>

\* update(): the counters and the snapshot after it.  A clear resets both; a stop
\* leaves the snapshot as it is.
Updated ==
    IF control.clear THEN <<Zero, Zero>>
    ELSE IF control.stop THEN <<management, requests>>
    ELSE <<management, Copied(management)>>

\* The rest of update(): a clear is over, and leaves its message.
Update ==
    /\ control' = [stop |-> control.stop, clear |-> FALSE]
    /\ message' = IF control.clear THEN "message cleared" ELSE message

Request == alive /\ served < MaxRequests /\ served' = served + 1

\* What the clients have been answered.
Answer(op, sub, ok, kind) ==
    /\ reply' = [op |-> op, sub |-> sub, ok |-> ok, counts |-> NoCounts]
    /\ due' = Counted(due, sub, kind, ok)

\* What an open adds to the counters; it does not call update().
OpenCounts(ok) ==
    /\ management' = Counted(management, "main", "opens", ok)
    /\ late' = IF control.clear THEN Counted(late, "main", "opens", ok) ELSE late
    /\ Answer("open", "main", ok, "opens")

\* xopen: an open of the main scheme, and a handler for its id.
Open(s) ==
    /\ Request /\ fds[s] = NoFd
    /\ \E u \in Users, access \in SUBSET Ops, path \in {"", "/urandom", "other"}, excl \in BOOLEAN :
         \/ /\ OpenOk(path, excl, access, u)
            /\ files' = Opened(files, next_fd, u)
            /\ next_fd' = NextFd(files', next_fd)
            /\ handlers' = [handlers EXCEPT ![next_fd] = "main"]
            /\ fds' = [fds EXCEPT ![s] = [id |-> next_fd, sub |-> "main"]]
            /\ OpenCounts(TRUE)
         \/ /\ ~OpenOk(path, excl, access, u)
            /\ UNCHANGED <<files, next_fd, handlers, fds>>
            /\ OpenCounts(FALSE)
    /\ UNCHANGED <<next_mgmt_id, requests, control, message, alive>>

\* Mutants of NextMgmt: fetch_add, and a mere load.
NextMgmtUp(id) == (id + 1) % IdMod
NextMgmtSame(id) == id

\* fetch_sub on a usize.
NextMgmt(id) == (id - 1) % IdMod

\* dup to a management scheme: a handler under a new id, then an update for the old
\* id, on whose scheme the dup is counted.
DupMgmt(s, t) ==
    /\ Request /\ fds[s] # NoFd /\ fds[t] = NoFd
    /\ handlers[fds[s].id] # NoSub
    /\ \E name \in MgmtNames :
         /\ handlers' = [handlers EXCEPT ![next_mgmt_id] = name]
         /\ fds' = [fds EXCEPT ![t] = [id |-> next_mgmt_id, sub |-> name]]
    /\ next_mgmt_id' = NextMgmt(next_mgmt_id)
    /\ management' = Counted(Updated[1], handlers'[fds[s].id], "dups", TRUE)
    /\ requests' = Updated[2]
    /\ Update
    /\ Answer("dup", fds[s].sub, TRUE, "dups")
    /\ UNCHANGED <<files, next_fd, alive, late>>

\* dup with an empty or an unknown name goes to the scheme, none of which has a dup.
\* The failure returns at once: it is never counted.
DupFails(s) ==
    /\ Request /\ fds[s] # NoFd
    /\ \/ UNCHANGED <<management, requests, control, message>>
       \/ /\ handlers[fds[s].id] # NoSub
          /\ management' = Updated[1] /\ requests' = Updated[2] /\ Update
    /\ reply' = [op |-> "dup", sub |-> fds[s].sub, ok |-> FALSE, counts |-> NoCounts]
    /\ UNCHANGED <<files, next_fd, handlers, next_mgmt_id, fds, alive, due, late>>

\* read: the update comes first, so that a read of request_count sees every request
\* before it.
Read(s) ==
    /\ Request /\ fds[s] # NoFd
    /\ LET id  == fds[s].id
           sub == handlers[id]
           ok  == sub # NoSub /\ (sub = "main" => CanPerform(files, id, "read"))
       IN /\ management' = Counted(Updated[1], sub, "reads", ok)
          /\ requests' = Updated[2]
          /\ Update
          /\ reply' = [op |-> "read", sub |-> fds[s].sub, ok |-> ok,
                       counts |-> IF sub = "request_count" THEN Updated[2] ELSE NoCounts]
          /\ due' = Counted(due, fds[s].sub, "reads", ok)
    /\ UNCHANGED <<files, next_fd, handlers, next_mgmt_id, fds, alive, late>>

\* What a write on a management scheme does to the snapshot, the control flags and
\* the message.  48 bytes on request_count overwrite the snapshot.
WriteMgmt(sub, text) ==
    /\ requests' = IF sub # "request_count" THEN Updated[2]
                   ELSE IF text = "clear" THEN Zero ELSE Forged
    /\ control' = [stop  |-> control.stop \/ (sub = "control" /\ text = "stop"),
                   clear |-> sub = "control" /\ text = "clear"]
    /\ message' = IF sub = "message" THEN text
                  ELSE IF control.clear THEN "message cleared" ELSE message

\* What the buffer of a write can be: the words of the control scheme, a message of
\* up to 40 bytes, and 48 bytes of counts.
Texts == {"clear", "cleared", "stop", "text", "counts"}

\* A buffer the scheme's copy does not fit: the service panics.
Overruns(sub, text) ==
    \/ sub = "message" /\ text = "counts"
    \/ sub = "request_count" /\ text \notin {"clear", "counts"}

\* write: pid and time_stamp have none.
Write(s) ==
    /\ Request /\ fds[s] # NoFd
    /\ \E text \in Texts :
         LET id  == fds[s].id
             sub == handlers[id]
             ok  == /\ sub \notin {NoSub, "pid", "time_stamp"}
                    /\ sub = "main" => CanPerform(files, id, "write")
             clears == sub = "control" /\ text = "clear"
         IN /\ ~Overruns(sub, text)
            /\ management' = Counted(Updated[1], sub, "writes", ok)
            /\ WriteMgmt(sub, text)
            /\ reply' = [op |-> "write", sub |-> fds[s].sub, ok |-> ok, counts |-> NoCounts]
            /\ due' = IF clears THEN Zero ELSE Counted(due, fds[s].sub, "writes", ok)
            /\ late' = IF clears THEN Zero ELSE late
    /\ UNCHANGED <<files, next_fd, handlers, next_mgmt_id, fds, alive>>

\* A read or write whose buffer does not fit: the service is gone.
Panic(s) ==
    /\ Request /\ fds[s] # NoFd
    /\ handlers[fds[s].id] \in MgmtNames
    /\ alive' = FALSE
    /\ UNCHANGED <<files, next_fd, handlers, next_mgmt_id, management, requests, control,
                   message, fds, reply, due, late>>

\* Mutant of Unhandled: the handler is kept.
UnhandledKept(id) == handlers

\* The map of handlers without this id.
Unhandled(id) == [handlers EXCEPT ![id] = NoSub]

\* close: the handler goes, whatever the scheme answers; of the management schemes only
\* control has a close, the others refuse.
Close(s) ==
    /\ Request /\ fds[s] # NoFd
    /\ LET id  == fds[s].id
           sub == handlers[id]
           ok  == sub = "control" \/ (sub = "main" /\ CloseOk(files, id))
       IN /\ IF sub = NoSub
             THEN UNCHANGED <<files, management, requests, control, message>>
             ELSE /\ files' = IF sub = "main" THEN Closed(files, id) ELSE files
                  /\ management' = Counted(Updated[1], sub, "closes", ok)
                  /\ requests' = Updated[2]
                  /\ Update
          /\ handlers' = Unhandled(id)
          /\ fds' = [fds EXCEPT ![s] = NoFd]
          /\ Answer("close", fds[s].sub, ok, "closes")
    /\ UNCHANGED <<next_fd, next_mgmt_id, alive, late>>

Next ==
    \/ \E s \in Slots : Open(s) \/ DupFails(s) \/ Read(s) \/ Write(s) \/ Panic(s) \/ Close(s)
    \/ \E s, t \in Slots : DupMgmt(s, t)

Spec == Init /\ [][Next]_vars

-----------------------------------------------------------------------------
(* Properties.                                                             *)

TypeOK ==
    /\ files \in OpenFiles /\ next_fd \in Ids
    /\ handlers \in [Ids -> Subs \cup {NoSub}] /\ next_mgmt_id \in Ids
    /\ management \in Counts /\ requests \in Counts
    /\ control \in [stop: BOOLEAN, clear: BOOLEAN]
    /\ message \in {"starting!", "message cleared"} \cup Texts
    /\ fds \in [Slots -> [id: Ids, sub: Subs] \cup {NoFd}]
    /\ alive \in BOOLEAN
    /\ reply \in [op: {"none", "open", "dup", "read", "write", "close"},
                  sub: Subs \cup {NoSub}, ok: BOOLEAN, counts: Counts \cup {NoCounts}]
    /\ due \in Counts /\ late \in Counts
    /\ served \in 0 .. MaxRequests

\* The ids of the main scheme grow from 0 and those of the management schemes fall
\* from FirstMgmt; while fewer than FirstMgmt requests have come they stay apart.
IdsApart ==
    /\ next_fd + (FirstMgmt - next_mgmt_id) <= served
    /\ next_mgmt_id <= FirstMgmt
    /\ \A i \in Ids : /\ handlers[i] = "main" => i < next_fd
                      /\ handlers[i] \in MgmtNames => next_mgmt_id < i

TypeInv == TypeOK /\ IdsApart

\* The three tables of descriptors agree: the service has a handler for exactly the
\* ids its clients hold, of the scheme they asked for, and gtrand has an open file
\* for exactly those of its own.
TablesAgree ==
    /\ \A s \in Slots : fds[s] # NoFd => handlers[fds[s].id] = fds[s].sub
    /\ \A i \in Ids : handlers[i] # NoSub => \E s \in Slots : fds[s] # NoFd /\ fds[s].id = i
    /\ \A i \in Ids : files[i] # NoUser <=> handlers[i] = "main"

\* No two descriptors share an id.
IdsUnique ==
    \A s, t \in Slots : fds[s] # NoFd /\ fds[t] # NoFd /\ fds[s].id = fds[t].id => s = t

\* Unless a stop has been written, a client that reads request_count is told of every
\* counted request since the last clear, but for the opens that came between the
\* clear and the next other request.  The number told is the one that seven bytes hold.
StatsAccount ==
    reply.counts # NoCounts /\ ~control.stop =>
        \A k \in Kinds : reply.counts[k] = (due[k] - late[k]) % Low7

\* "dup: ... a new id is assigned for that scheme": no open descriptor has it yet.
NewIdIsNew ==
    [][\A t \in Slots : fds[t] = NoFd /\ fds'[t] # NoFd =>
         \A s \in Slots : fds[s] # NoFd => fds[s].id # fds'[t].id]_vars

\* "counting requests to the main scheme for read, write, open, close, dup, and any
\* errors": a failed request on the main scheme adds one to the errors.
ErrorsCounted ==
    [][served' # served /\ alive' /\ reply'.sub = "main" /\ ~reply'.ok =>
         management'.errors =
           (IF control.clear /\ reply'.op # "open" THEN 0 ELSE management.errors) + 1]_vars
=============================================================================
