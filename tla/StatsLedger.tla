---------------------------- MODULE StatsLedger ----------------------------
(***************************************************************************)
(* The statistics of a managed service, from end to end: the service       *)
(* counts its requests (BaseScheme), the monitor collects the counts with  *)
(* requests of its own, and other clients call the service in between.     *)
(*                                                                         *)
(* What the monitor does for a command is a list of calls, taken one at a  *)
(* time: requests to the service, each an action of BaseScheme, and steps  *)
(* on the service's entry.  A read or write under the timeout may be given *)
(* up: recover() replaces the process, and the helper starts over.  Spawns *)
(* that fail, services that crash, and a process that hangs while it is    *)
(* recovered are the subject of ServiceMonitor and left out here.          *)
(***************************************************************************)
EXTENDS BaseScheme, Sequences

CONSTANTS
    Main, Sub,              \* the descriptors of a helper
    ChildScheme, PidScheme, \* those that start() and recover() never close
    MaxJobs,                \* at most this many commands in a behaviour,
    MaxAsked,               \* requests of other clients,
    MaxTimeouts             \* and timeouts

Kept == {Main, Sub, ChildScheme, PidScheme}
Clients == Slots \ Kept

ASSUME LedgerAssumption ==
    /\ Kept \subseteq Slots
    /\ Main # Sub /\ ChildScheme # PidScheme
    /\ {Main, Sub} \cap {ChildScheme, PidScheme} = {}
    /\ MaxJobs \in Nat /\ MaxAsked \in Nat /\ MaxTimeouts \in Nat

VARIABLES
    calls,      \* what the monitor has still to do for its command
    running,    \* ServiceEntry.running
    buffer,     \* the counts in read_buffer, or NoCounts
    counts,     \* ServiceEntry.read_count, write_count, ...
    total,      \* ServiceEntry.total_reads, total_writes, ...
    told,       \* the counts and totals of the last answer to info
    answered,   \* counted requests answered since the entry was made,
    since,      \* those since the last clear or timeout,
    lost,       \* those that neither a read nor a clear will find,
    strayed,    \* those of them that were sent by others while a clear was on its way
    window,     \* a clear has read the counts, and is not carried out yet
    clears,     \* clears carried out since the entry was made
    known,      \* since, and answered without lost, when info last read the counts
    did         \* commands, requests of other clients, and timeouts so far (bounds)

entry == <<running, buffer, counts, total, told>>
ghosts == <<answered, since, lost, strayed, window, clears, known>>
ledgerVars == <<vars, calls, entry, ghosts, did>>

NoTold == [counts |-> NoCounts, total |-> NoCounts]
Nobody == [counts |-> Zero, total |-> Zero]

Added(c, d) == [k \in Kinds |-> c[k] + d[k]]
Minus(c, d) == [k \in Kinds |-> c[k] - d[k]]

-----------------------------------------------------------------------------
(* The calls of the monitor.                                               *)

\* A request on a descriptor: name is the scheme of a dup, or, for a read or write,
\* of the helper it belongs to; any other call has none.
Call(op, slot, name) == [op |-> op, slot |-> slot, name |-> name]

\* A step on the entry.
Do(op) == Call(op, NoFd, "none")

\* read_helper and write_helper.
Helper(op, name) ==
    <<Call("open", Main, "none"), Call("dup", Sub, name), Call("close", Main, "none"),
      Call(op, Sub, name), Call("close", Sub, "none")>>

\* Mutant of UpdateCalls: the counts are taken from the buffer at the end.
UpdateCallsLate ==
    Helper("read", "message") \o Helper("read", "request_count") \o
    Helper("read", "time_stamp") \o <<Do("take")>>

\* update_service_info
UpdateCalls ==
    Helper("read", "message") \o Helper("read", "request_count") \o <<Do("take")>> \o
    Helper("read", "time_stamp")

\* Mutants of ClearCalls: the counts are read after the clear is written, or some
\* other call is made between the two.
ClearCallsLate ==
    Helper("write", "control") \o Helper("read", "request_count") \o <<Do("add"), Do("zero")>>
ClearCallsTwice ==
    Helper("read", "request_count") \o <<Do("add")>> \o
    Helper("read", "message") \o Helper("write", "control") \o <<Do("zero")>>

\* clear
ClearCalls ==
    Helper("read", "request_count") \o <<Do("add")>> \o
    Helper("write", "control") \o <<Do("zero")>>

\* What start() does when the process is there.
StartCalls ==
    <<Call("open", ChildScheme, "none"), Call("dup", PidScheme, "pid"),
      Call("read", PidScheme, "pid"), Do("run")>>

\* recover(), likewise: it learns the pid twice.
RecoverCalls ==
    <<Call("open", ChildScheme, "none"), Call("dup", PidScheme, "pid"),
      Call("read", PidScheme, "pid")>> \o Helper("read", "pid")

\* What a command does to a service that is running, or is not.
Commands ==
    IF running
    THEN {UpdateCalls, UpdateCalls \o <<Do("tell")>>, ClearCalls, ClearCalls \o <<Do("kill")>>}
    ELSE {<<Do("tell")>>, <<Do("spawn")>> \o StartCalls}

-----------------------------------------------------------------------------
(* The books.                                                              *)

CountedAs == [open |-> "opens", dup |-> "dups", read |-> "reads", write |-> "writes",
              close |-> "closes"]

\* A counter after the request just answered.  A dup that fails is not counted.
Gained(c) ==
    IF reply'.sub # "main" \/ (reply'.op = "dup" /\ ~reply'.ok) THEN c
    ELSE Plus(c, IF reply'.ok THEN CountedAs[reply'.op] ELSE "errors")

\* A request is answered.  Until the service carries out the clear, what it counts is
\* thrown away.
Books(by) ==
    LET cleared == window /\ control.clear /\ ~control'.clear
        thrown  == window /\ ~cleared
    IN /\ answered' = Gained(answered)
       /\ lost' = IF thrown THEN Gained(lost) ELSE lost
       /\ strayed' = IF thrown /\ by = "other" THEN Gained(strayed) ELSE strayed
       /\ clears' = IF cleared THEN clears + 1 ELSE clears

-----------------------------------------------------------------------------
(* Actions.                                                                *)

LedgerInit ==
    /\ Init
    /\ calls = StartCalls
    /\ running = FALSE /\ buffer = NoCounts
    /\ counts = Zero /\ total = Zero /\ told = NoTold
    /\ answered = Zero /\ since = Zero /\ lost = Zero /\ strayed = Zero
    /\ window = FALSE /\ clears = 0 /\ known = Nobody
    /\ did = [jobs |-> 0, asked |-> 0, timeouts |-> 0]

\* eval_cmd begins with a command.
Begin ==
    /\ calls = <<>> /\ did.jobs < MaxJobs
    /\ calls' \in Commands
    /\ did' = [did EXCEPT !.jobs = @ + 1]
    /\ buffer' = NoCounts /\ told' = NoTold
    /\ UNCHANGED <<vars, running, counts, total, ghosts>>

\* The scheme of a new process.
NewProcess ==
    /\ files' = [i \in Ids |-> NoUser] /\ next_fd' = 0
    /\ handlers' = [i \in Ids |-> NoSub] /\ next_mgmt_id' = FirstMgmt
    /\ management' = Zero /\ requests' = Zero
    /\ control' = [stop |-> FALSE, clear |-> FALSE]
    /\ message' = "starting!"
    /\ fds' = [s \in Slots |-> NoFd]
    /\ alive' = TRUE
    /\ reply' = [op |-> "none", sub |-> NoSub, ok |-> TRUE, counts |-> NoCounts]
    /\ due' = Zero /\ late' = Zero /\ served' = 0

\* The request of BaseScheme that a call makes.
Requested(call) ==
    \/ call.op = "open" /\ Open(call.slot) /\ fds'[call.slot] # NoFd
    \/ /\ call.op = "dup"
       /\ DupMgmt(IF call.slot = Sub THEN Main ELSE ChildScheme, call.slot)
       /\ fds'[call.slot].sub = call.name
    \/ call.op = "read" /\ Read(call.slot)
    \/ call.op = "write" /\ Write(call.slot) /\ control'.clear
    \/ call.op = "close" /\ Close(call.slot)

\* This read of the counts is the one that clear() adds to the totals.
ForTotals(call) ==
    /\ call.op = "read" /\ call.name = "request_count"
    /\ Len(calls) > 2 /\ calls[3].op = "add"

\* The monitor makes its next request.
Serve ==
    /\ calls # <<>>
    /\ LET call == Head(calls) IN
         /\ Requested(call)
         /\ Books("monitor")
         /\ IF call.op = "read"
            THEN /\ buffer' = reply'.counts
                 /\ known' = IF call.name = "request_count"
                             THEN [counts |-> since, total |-> Minus(answered, lost)]
                             ELSE known
            ELSE UNCHANGED <<buffer, known>>
         /\ window' = (ForTotals(call) \/ (window /\ clears' = clears))
         /\ since' = IF ForTotals(call) THEN Zero
                     ELSE IF window /\ clears' = clears THEN since ELSE Gained(since)
    /\ calls' = Tail(calls)
    /\ UNCHANGED <<running, counts, total, told, did>>

\* A client makes a request on the service's own scheme.
Ask ==
    /\ did.asked < MaxAsked
    /\ did' = [did EXCEPT !.asked = @ + 1]
    /\ \E s \in Clients : Open(s) \/ DupFails(s) \/ Read(s) \/ Write(s) \/ Close(s)
    /\ Books("other")
    /\ window' = (window /\ clears' = clears)
    /\ since' = IF window /\ clears' = clears THEN since ELSE Gained(since)
    /\ UNCHANGED <<calls, entry, known>>

\* The service has not answered a read or write of a helper within 50 ms: recover()
\* kills it and spawns another, which it asks for its pid; then the helper starts over.
TimedOut ==
    /\ calls # <<>> /\ did.timeouts < MaxTimeouts
    /\ did' = [did EXCEPT !.timeouts = @ + 1]
    /\ LET call == Head(calls) IN
         /\ call.op \in {"read", "write"} /\ call.name # "pid"
         /\ calls' = RecoverCalls \o Helper(call.op, call.name) \o Tail(Tail(calls))
    /\ NewProcess
    /\ lost' = Added(lost, since) /\ since' = Zero
    /\ UNCHANGED <<entry, answered, strayed, window, clears, known>>

-----------------------------------------------------------------------------
(* The steps on the entry.                                                 *)

Step(op) ==
    /\ calls # <<>> /\ Head(calls) = Do(op)
    /\ calls' = Tail(calls)
    /\ UNCHANGED <<buffer, did>>

\* update_service_info takes the counts over, clear() adds them to the totals and sets
\* them to zero, info() answers, start() ends.
Take ==
    /\ Step("take")
    /\ counts' = buffer
    /\ UNCHANGED <<vars, running, total, told, ghosts>>

AddUp ==
    /\ Step("add")
    /\ total' = Added(total, buffer)
    /\ UNCHANGED <<vars, running, counts, told, ghosts>>

SetZero ==
    /\ Step("zero")
    /\ counts' = Zero
    /\ UNCHANGED <<vars, running, total, told, ghosts>>

Tell ==
    /\ Step("tell")
    /\ told' = [counts |-> IF running THEN counts ELSE Zero, total |-> Added(total, counts)]
    /\ UNCHANGED <<vars, running, counts, total, ghosts>>

Run ==
    /\ Step("run")
    /\ running' = TRUE
    /\ UNCHANGED <<vars, counts, total, told, ghosts>>

Spawn ==
    /\ Step("spawn")
    /\ NewProcess
    /\ UNCHANGED <<running, counts, total, told, ghosts>>

\* Mutant of FreshEntry: a stop keeps the totals.
FreshEntryKept == running' = FALSE /\ counts' = Zero /\ total' = total

\* The entry after a stop is made anew from the registry.
FreshEntry == running' = FALSE /\ counts' = Zero /\ total' = Zero

Kill ==
    /\ Step("kill")
    /\ FreshEntry
    /\ alive' = FALSE
    /\ answered' = Zero /\ since' = Zero /\ lost' = Zero /\ strayed' = Zero
    /\ clears' = 0 /\ known' = Nobody
    /\ UNCHANGED <<files, next_fd, handlers, next_mgmt_id, management, requests, control,
                   message, fds, reply, due, late, served, told, window>>

LedgerNext ==
    \/ Begin \/ Serve \/ Ask \/ TimedOut
    \/ Take \/ AddUp \/ SetZero \/ Tell \/ Run \/ Spawn \/ Kill

LedgerSpec == LedgerInit /\ [][LedgerNext]_ledgerVars

-----------------------------------------------------------------------------
(* Properties.                                                             *)

\* The one buffer of update_service_info and clear holds counts whenever they are
\* taken from it, and a descriptor the monitor uses is open.
LedgerTypeInv ==
    /\ TypeOK
    /\ running \in BOOLEAN /\ window \in BOOLEAN
    /\ buffer \in Counts \cup {NoCounts}
    /\ {counts, total, answered, since, lost, strayed} \subseteq Counts
    /\ clears \in Nat
    /\ calls # <<>> =>
         /\ Head(calls).op \in {"take", "add"} => buffer # NoCounts
         /\ Head(calls).op \in {"read", "write", "close"} =>
              fds[Head(calls).slot] # NoFd /\ alive

\* "# since last clear": info tells the counted requests answered since the service
\* carried out the last clear, or was started or recovered, up to the read.
CountsTold == told # NoTold => told.counts = known.counts

\* "Total number of requests": info tells the counted requests of all processes since
\* the service was started, each once, but for those that are lost.
TotalsTold == told # NoTold => told.total = known.total

\* As long as no call times out, a clear loses its own open, dup and close, and what
\* other clients send between its read and the end of its write; nothing else.
Own == [k \in Kinds |-> IF k \in {"opens", "dups", "closes"} THEN 1 ELSE 0]
LossIsOwn ==
    did.timeouts = 0 /\ ~window =>
        \A k \in Kinds : lost[k] = strayed[k] + clears * Own[k]
=============================================================================
