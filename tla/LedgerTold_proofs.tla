--------------------------- MODULE LedgerTold_proofs ---------------------------
(***************************************************************************)
(* What info tells, for any clients, requests, commands and timeouts: the  *)
(* counts and the totals are those of the requests answered so far.        *)
(***************************************************************************)
EXTENDS LedgerCalls_proofs

\* The counters of a behaviour fit in seven bytes.
SmallCounts == MaxRequests < Low7

-----------------------------------------------------------------------------
(* The clear that is on its way.                                           *)

\* A read of its own that a recovery makes.
AsksPid(call) == call.op = "read" /\ call.name = "pid"

\* The write of the clear is the w-th call to come, or has been made (0) and flags the
\* service to clear; what comes before does not write, and what comes after sends nothing.
OnWay(clear, list, w) ==
    /\ w < Len(list)
    /\ w = 0 => clear = TRUE
    /\ w > 0 => clear = FALSE /\ list[w].op = "write"
    /\ list[w + 1].op = "close"
    /\ \A j \in w + 2 .. Len(list) : list[j].op \in {"zero", "kill"}
    /\ \A j \in 1 .. w - 1 : list[j].op \in {"open", "dup", "close", "add"} \/ AsksPid(list[j])

\* What its next call is.
LEMMA OnWayHead ==
    ASSUME NEW list \in Seq(CallType), NEW clear, NEW w \in Nat, OnWay(clear, list, w)
    PROVE  /\ list # <<>> /\ Head(list) = list[1]
           /\ w = 0 => list[1].op = "close"
           /\ w = 1 => list[1].op = "write"
           /\ w > 1 => list[1].op \in {"open", "dup", "close", "add"} \/ AsksPid(list[1])
<1>1. Len(list) \in Nat /\ Len(list) > 0 BY DEF OnWay
<1>2. list # <<>>
  <2>1. list = <<>> => Len(list) = 0 OBVIOUS
  <2> QED BY <1>1, <2>1
<1>3. w > 1 => 1 \in 1 .. w - 1 OBVIOUS
<1> QED BY <1>2, <1>3, TailValues DEF OnWay

LEMMA OnWayNext ==
    ASSUME NEW list \in Seq(CallType), NEW clear, NEW w \in Nat \ {0}, OnWay(clear, list, w)
    PROVE  OnWay(w = 1, Tail(list), w - 1)
<1> DEFINE rest == Tail(list)
<1>1. /\ Len(list) \in Nat \ {0} /\ Len(rest) = Len(list) - 1
      /\ \A i \in 1 .. Len(list) - 1 : rest[i] = list[i + 1]
  BY OnWayHead, TailValues
<1> HIDE DEF rest
<1>2. w < Len(list) /\ list[w + 1].op = "close" BY DEF OnWay
<1>3. w - 1 < Len(rest) /\ rest[(w - 1) + 1].op = "close"
  <2>1. w \in 1 .. Len(list) - 1 /\ (w - 1) + 1 = w BY <1>1, <1>2
  <2>2. rest[w] = list[w + 1] BY <1>1, <2>1
  <2> QED BY <1>1, <1>2, <2>1, <2>2
<1>4. w - 1 > 0 => rest[w - 1].op = "write"
  <2>1. w - 1 > 0 => w - 1 \in 1 .. Len(list) - 1 /\ (w - 1) + 1 = w BY <1>1, <1>2
  <2> QED BY <1>1, <2>1 DEF OnWay
<1>5. ASSUME NEW j \in (w - 1) + 2 .. Len(rest) PROVE rest[j].op \in {"zero", "kill"}
  <2>1. j \in 1 .. Len(list) - 1 /\ j + 1 \in w + 2 .. Len(list) BY <1>1
  <2> QED BY <1>1, <2>1 DEF OnWay
<1>6. ASSUME NEW j \in 1 .. (w - 1) - 1
      PROVE  rest[j].op \in {"open", "dup", "close", "add"} \/ AsksPid(rest[j])
  <2>1. j \in 1 .. Len(list) - 1 /\ j + 1 \in 1 .. w - 1 BY <1>1, <1>2
  <2> QED BY <1>1, <2>1 DEF OnWay
<1>7. OnWay(w = 1, rest, w - 1)
  <2>1. w - 1 = 0 => (w = 1) = TRUE OBVIOUS
  <2>2. w - 1 > 0 => (w = 1) = FALSE OBVIOUS
  <2> QED BY <1>3, <1>4, <1>5, <1>6, <2>1, <2>2 DEF OnWay
<1> QED BY <1>7 DEF rest

\* Once the write is made nothing more is written.
LEMMA OnWayOver ==
    ASSUME NEW list \in Seq(CallType), NEW clear, OnWay(clear, list, 0)
    PROVE  WritesFollow(list) /\ WritesFollow(Tail(list))
<1> DEFINE rest == Tail(list)
<1>1. /\ Len(list) \in Nat \ {0} /\ Len(rest) = Len(list) - 1
      /\ \A i \in 1 .. Len(list) - 1 : rest[i] = list[i + 1]
      /\ list[1].op = "close"
  BY OnWayHead, TailValues
<1> HIDE DEF rest
<1>2. \A j \in 2 .. Len(list) : list[j].op \in {"zero", "kill"} BY DEF OnWay
<1>3. \A j \in 1 .. Len(list) : list[j].op # "write"
  <2> TAKE j \in 1 .. Len(list)
  <2>1. j = 1 \/ j \in 2 .. Len(list) BY <1>1
  <2> QED BY <1>1, <1>2, <2>1
<1>4. \A j \in 1 .. Len(rest) : rest[j].op # "write" BY <1>1, <1>3
<1> QED BY <1>3, <1>4 DEF WritesFollow, rest

\* It begins with the read for the totals.
LEMMA OnWayStart ==
    ASSUME NEW list, Ordered(list), list # <<>>, TotalsRead(list, 1)
    PROVE  OnWay(FALSE, Tail(list), 6)
<1> DEFINE rest == Tail(list)
<1>1. /\ rest \in Seq(CallType) /\ Len(list) \in Nat \ {0} /\ Len(rest) = Len(list) - 1
      /\ \A i \in 1 .. Len(list) - 1 : rest[i] = list[i + 1]
  BY TailValues DEF Ordered, CallsInOrder
<1> HIDE DEF rest
<1>2. 1 \in 1 .. Len(list) BY <1>1
<1>3. 1 + 7 <= Len(list) /\ \A j \in 1 .. 7 : list[1 + j] = ClearTail[j]
  BY <1>2 DEF Ordered, CallsInOrder
<1>4. \A j \in 1 .. 7 : rest[j] = ClearTail[j]
  <2> TAKE j \in 1 .. 7
  <2>1. j \in 1 .. Len(list) - 1 /\ 1 + j = j + 1 BY <1>1, <1>3
  <2> QED BY <1>1, <1>3, <2>1
<1>5. /\ rest[1].op = "close" /\ rest[2].op = "add" /\ rest[3].op = "open"
      /\ rest[4].op = "dup" /\ rest[5].op = "close" /\ rest[6].op = "write"
      /\ rest[7].op = "close"
  BY <1>4, ClearTailValues DEF Call, Do
<1>6. ASSUME NEW j \in 8 .. Len(rest) PROVE rest[j].op \in {"zero", "kill"}
  <2>1. j \in 1 .. Len(list) - 1 /\ j + 1 \in 1 .. Len(list) /\ j + 1 > 1 + 7 BY <1>1
  <2>2. list[j + 1].op \in {"zero", "kill"} BY <1>2, <2>1 DEF Ordered, Ended
  <2> QED BY <1>1, <2>1, <2>2
<1>7. \A j \in 1 .. 5 : rest[j].op \in {"open", "dup", "close", "add"}
  <2> TAKE j \in 1 .. 5
  <2>1. j \in {1, 2, 3, 4, 5} OBVIOUS
  <2> QED BY <1>5, <2>1
<1>8. OnWay(FALSE, rest, 6)
  <2>1. 6 < Len(rest) BY <1>1, <1>3
  <2>2. 6 + 1 = 7 /\ 6 + 2 = 8 /\ 6 - 1 = 5 /\ 6 > 0 /\ 6 # 0 OBVIOUS
  <2> QED BY <1>5, <1>6, <1>7, <2>1, <2>2 DEF OnWay
<1> QED BY <1>8 DEF rest

\* A write that times out is made again, behind the calls of the recovery.
LEMMA OnWayAgain ==
    ASSUME NEW old \in Seq(CallType), NEW list, AgainForm(list, old),
           NEW clear, OnWay(clear, old, 1)
    PROVE  OnWay(FALSE, list, 12)
<1>1. /\ Len(old) \in Nat /\ 1 < Len(old) /\ old[1].op = "write" /\ old[2].op = "close"
  <2>1. Len(old) \in Nat OBVIOUS
  <2>2. 1 < Len(old) /\ old[1].op = "write" /\ old[1 + 1].op = "close" BY DEF OnWay
  <2> QED BY <2>1, <2>2
<1>2. Len(list) = Len(old) + 11 /\ \A i \in 12 .. Len(list) : list[i] = old[i - 11]
  BY DEF AgainForm
<1>3. list[12].op = "write" /\ list[13].op = "close"
  <2>1. 12 \in 12 .. Len(list) /\ 13 \in 12 .. Len(list) /\ 12 - 11 = 1 /\ 13 - 11 = 2
    BY <1>1, <1>2
  <2> QED BY <1>1, <1>2, <2>1
<1>4. ASSUME NEW j \in 14 .. Len(list) PROVE list[j].op \in {"zero", "kill"}
  <2>1. j \in 12 .. Len(list) /\ j - 11 \in 1 + 2 .. Len(old) BY <1>1, <1>2
  <2> QED BY <1>2, <2>1 DEF OnWay
<1>5. \A j \in 1 .. 11 : list[j].op \in {"open", "dup", "close", "add"} \/ AsksPid(list[j])
  <2> TAKE j \in 1 .. 11
  <2>1. j \in {1, 4, 9} \/ j \in {2, 5, 10} \/ j \in {6, 8, 11} \/ j \in {3, 7} OBVIOUS
  <2> QED BY <1>1, <2>1, AgainOps DEF AsksPid
<1>6. 12 < Len(list) BY <1>1, <1>2
<1>7. 12 + 1 = 13 /\ 12 + 2 = 14 /\ 12 - 1 = 11 /\ 12 > 0 /\ 12 # 0 OBVIOUS
<1> QED BY <1>3, <1>4, <1>5, <1>6, <1>7 DEF OnWay

\* While the counts are still to be added, the write is still to be made.
LEMMA OnWayAdd ==
    ASSUME NEW list \in Seq(CallType), NEW clear, NEW w \in Nat, OnWay(clear, list, w),
           Soon(list, "add")
    PROVE  w > 1 /\ clear = FALSE
<1>1. w # 1 BY OnWayHead DEF Soon
<1>2. w # 0
  <2> SUFFICES ASSUME w = 0 PROVE FALSE
    OBVIOUS
  <2>1. list[1].op = "close" BY OnWayHead
  <2>2. Len(list) > 1 /\ list[2].op = "add" BY <2>1 DEF Soon
  <2>3. 2 \in w + 2 .. Len(list) BY <2>2
  <2> QED BY <2>2, <2>3 DEF OnWay
<1> QED BY <1>1, <1>2 DEF OnWay

-----------------------------------------------------------------------------
(* The counters of the service, and the books.                             *)

LEMMA GainedCounted ==
    ASSUME NEW c, NEW sub, NEW ok, NEW op \in {"open", "read", "write", "close"},
           reply'.op = op, reply'.sub = sub, reply'.ok = ok
    PROVE  Counted(c, sub, CountedAs[op], ok) = Gained(c)
BY DEF Counted, Gained

LEMMA SameCounters ==
    ASSUME Tables, CountsType, control.clear = FALSE
    PROVE  Updated[1] = management
BY UpdatedValues DEF CountsType

LEMMA StopFlag ==
    /\ \A stop, clear : [stop |-> stop, clear |-> clear].stop = stop
    /\ Update => control'.stop = control.stop
<1>1. \A stop, clear : [stop |-> stop, clear |-> clear].stop = stop OBVIOUS
<1>2. Update => control' = [stop |-> control.stop, clear |-> FALSE] BY DEF Update
<1> QED BY <1>1, <1>2

\* The counters of the service after a request: those of the books, after the update.
LEMMA OpenBooked ==
    ASSUME NEW s, Open(s)
    PROVE  served' = served + 1 /\ control' = control /\ management' = Gained(management)
<1>1. served' = served + 1 /\ control' = control BY DEF Open, Request
<1>2. PICK ok \in BOOLEAN : OpenCounts(ok) BY DEF Open
<1>3. /\ management' = Counted(management, "main", "opens", ok)
      /\ reply' = [op |-> "open", sub |-> "main", ok |-> ok, counts |-> NoCounts]
  BY <1>2 DEF OpenCounts, Answer
<1>4. reply'.op = "open" /\ reply'.sub = "main" /\ reply'.ok = ok
  BY <1>3, AnswerValues DEF Requests
<1>5. Counted(management, "main", CountedAs["open"], ok) = Gained(management)
  BY <1>4, GainedCounted
<1> QED BY <1>1, <1>3, <1>5, CountedKinds

LEMMA ReadBooked ==
    ASSUME Tables, NEW s \in Slots, Read(s)
    PROVE  /\ served' = served + 1 /\ control'.stop = control.stop
           /\ management' = Gained(Updated[1])
<1>1. fds[s] # NoFd /\ handlers[fds[s].id] = fds[s].sub BY DEF Read, Tables, TablesAgree
<1>2. served' = served + 1 /\ Update BY DEF Read, Request
<1> DEFINE sub == handlers[fds[s].id]
           ok == sub # NoSub /\ (sub = "main" => CanPerform(files, fds[s].id, "read"))
           n == IF sub = "request_count" THEN Updated[2] ELSE NoCounts
<1>3. /\ management' = Counted(Updated[1], sub, "reads", ok)
      /\ reply' = [op |-> "read", sub |-> fds[s].sub, ok |-> ok, counts |-> n]
  BY DEF Read
<1>4. sub = fds[s].sub BY <1>1
<1> HIDE DEF sub, ok, n
<1>5. reply'.op = "read" /\ reply'.sub = sub /\ reply'.ok = ok BY <1>3, <1>4
<1>6. Counted(Updated[1], sub, CountedAs["read"], ok) = Gained(Updated[1])
  BY <1>5, GainedCounted
<1> QED BY <1>2, <1>3, <1>6, CountedKinds, StopFlag

LEMMA WriteBooked ==
    ASSUME Tables, CountsType, NEW s \in Slots, Write(s)
    PROVE  /\ served' = served + 1 /\ management' = Gained(Updated[1])
           /\ control'.clear = TRUE \/ fds[s].sub = "main" => control'.stop = control.stop
<1>1. fds[s] # NoFd /\ handlers[fds[s].id] = fds[s].sub BY DEF Write, Tables, TablesAgree
<1>2. served' = served + 1 BY DEF Write, Request
<1> DEFINE sub == handlers[fds[s].id]
           ok == /\ sub \notin {NoSub, "pid", "time_stamp"}
                 /\ sub = "main" => CanPerform(files, fds[s].id, "write")
<1>3. PICK text \in Texts :
        /\ management' = Counted(Updated[1], sub, "writes", ok)
        /\ WriteMgmt(sub, text)
        /\ reply' = [op |-> "write", sub |-> fds[s].sub, ok |-> ok, counts |-> NoCounts]
  BY DEF Write
<1>4. sub = fds[s].sub BY <1>1
<1> HIDE DEF sub, ok
<1>5. reply'.op = "write" /\ reply'.sub = sub /\ reply'.ok = ok BY <1>3, <1>4
<1>6. Counted(Updated[1], sub, CountedAs["write"], ok) = Gained(Updated[1])
  BY <1>5, GainedCounted
<1> DEFINE clearing == sub = "control" /\ text = "clear"
           stopping == sub = "control" /\ text = "stop"
           both == control.stop \/ stopping
<1>7. control' = [stop |-> both, clear |-> clearing] BY <1>3 DEF WriteMgmt
<1>8. ASSUME control'.clear = TRUE \/ sub = "main" PROVE stopping = FALSE
  <2>1. control'.clear = clearing
    <3> HIDE DEF clearing, both
    <3> QED BY <1>7, Flags
  <2> QED BY <1>8, <2>1
<1>9. control'.stop = both
  <2> HIDE DEF clearing, both
  <2> QED BY <1>7, StopFlag
<1>10. control'.clear = TRUE \/ sub = "main" => control'.stop = control.stop
  <2>1. control.stop \in BOOLEAN BY DEF CountsType
  <2> HIDE DEF stopping
  <2> QED BY <1>8, <1>9, <2>1
<1> QED BY <1>2, <1>3, <1>4, <1>6, <1>10, CountedKinds

LEMMA CloseBooked ==
    ASSUME Tables, NEW s \in Slots, Close(s)
    PROVE  /\ served' = served + 1 /\ control'.stop = control.stop
           /\ management' = Gained(Updated[1])
<1>1. /\ fds[s] # NoFd /\ handlers[fds[s].id] = fds[s].sub /\ fds[s] \in [id: Ids, sub: Subs]
  BY DEF Close, Tables, TablesType, TablesAgree
<1>2. served' = served + 1 BY DEF Close, Request
<1> DEFINE sub == handlers[fds[s].id]
           ok == sub = "control" \/ (sub = "main" /\ CloseOk(files, fds[s].id))
<1>3. sub # NoSub BY <1>1, NoBaseValueAssumption
<1>4. /\ management' = Counted(Updated[1], sub, "closes", ok) /\ Update
      /\ reply' = [op |-> "close", sub |-> fds[s].sub, ok |-> ok, counts |-> NoCounts]
  BY <1>3 DEF Close, Answer
<1>5. sub = fds[s].sub BY <1>1
<1> HIDE DEF sub, ok
<1>6. reply'.op = "close" /\ reply'.sub = sub /\ reply'.ok = ok BY <1>4, <1>5
<1>7. Counted(Updated[1], sub, CountedAs["close"], ok) = Gained(Updated[1])
  BY <1>6, GainedCounted
<1> QED BY <1>2, <1>4, <1>7, CountedKinds, StopFlag

LEMMA DupBooked ==
    ASSUME FewRequests, Tables, NEW s \in Slots, NEW t, DupMgmt(s, t)
    PROVE  /\ served' = served + 1 /\ control'.stop = control.stop
           /\ management' = Gained(Updated[1])
<1>1. /\ fds[s] # NoFd /\ handlers[fds[s].id] = fds[s].sub /\ fds[s] \in [id: Ids, sub: Subs]
  BY DEF DupMgmt, Tables, TablesType, TablesAgree
<1>2. served' = served + 1 /\ served < MaxRequests /\ Update BY DEF DupMgmt, Request
<1>3. handlers[next_mgmt_id] = NoSub BY <1>2, NextIds
<1>4. fds[s].id # next_mgmt_id BY <1>1, <1>3, NoBaseValueAssumption
<1>5. handlers'[fds[s].id] = fds[s].sub
  <2>1. \E name : handlers' = [handlers EXCEPT ![next_mgmt_id] = name] BY DEF DupMgmt
  <2>2. handlers \in [Ids -> Subs \cup {NoSub}] /\ fds[s].id \in Ids
    BY <1>1 DEF Tables, TablesType
  <2> QED BY <1>1, <1>4, <2>1, <2>2
<1>6. /\ management' = Counted(Updated[1], handlers'[fds[s].id], "dups", TRUE)
      /\ reply' = [op |-> "dup", sub |-> fds[s].sub, ok |-> TRUE, counts |-> NoCounts]
  BY DEF DupMgmt, Answer
<1>7. reply'.op = "dup" /\ reply'.sub = fds[s].sub /\ reply'.ok = TRUE BY <1>6
<1>8. Counted(Updated[1], fds[s].sub, "dups", TRUE) = Gained(Updated[1])
  BY <1>7, CountedKinds DEF Counted, Gained
<1> QED BY <1>2, <1>5, <1>6, <1>8, StopFlag

LEMMA DupFailsBooked ==
    ASSUME NEW s, DupFails(s)
    PROVE  /\ served' = served + 1 /\ control'.stop = control.stop
           /\ \/ control' = control /\ management' = Gained(management)
              \/ management' = Gained(Updated[1])
<1>1. served' = served + 1 BY DEF DupFails, Request
<1>2. \/ control' = control /\ management' = management
      \/ Update /\ management' = Updated[1]
  BY DEF DupFails
<1>3. reply'.op = "dup" /\ reply'.ok = FALSE
  BY DEF DupFails
<1>4. \A c : Gained(c) = c BY <1>3 DEF Gained
<1> QED BY <1>1, <1>2, <1>4, StopFlag

\* A request finds the counters as they are, or as the update leaves them.
Booked ==
    /\ served' = served + 1 /\ control'.stop = control.stop
    /\ \/ control' = control /\ management' = Gained(management)
       \/ management' = Gained(Updated[1])

LEMMA RequestedBooked ==
    ASSUME FewRequests, Tables, CountsType, NEW call, CallShape(call), Requested(call)
    PROVE  Booked
<1> USE SlotsOfMonitor DEF Booked
<1>1. CASE call.op = "open" /\ Open(call.slot) BY <1>1, OpenBooked
<1>2. CASE call.op = "dup" /\ DupMgmt(IF call.slot = Sub THEN Main ELSE ChildScheme, call.slot)
  <2> DEFINE s == IF call.slot = Sub THEN Main ELSE ChildScheme
  <2>1. s \in Slots OBVIOUS
  <2> HIDE DEF s
  <2>2. DupMgmt(s, call.slot) BY <1>2 DEF s
  <2> QED BY <2>1, <2>2, DupBooked
<1>3. CASE call.op = "read" /\ Read(call.slot) BY <1>3, ReadBooked DEF CallShape
<1>4. CASE call.op = "write" /\ Write(call.slot) /\ control'.clear
  <2>1. call.slot \in Slots BY <1>4 DEF CallShape
  <2>2. control'.clear \in BOOLEAN BY <1>4, WriteEffect
  <2> QED BY <1>4, <2>1, <2>2, WriteBooked
<1>5. CASE call.op = "close" /\ Close(call.slot) BY <1>5, CloseBooked DEF CallShape
<1> QED BY <1>1, <1>2, <1>3, <1>4, <1>5 DEF Requested

LEMMA AskedBooked ==
    ASSUME FewRequests, Tables, CountsType, SlotsInv, NEW s \in Clients,
           Open(s) \/ DupFails(s) \/ Read(s) \/ Write(s) \/ Close(s)
    PROVE  Booked
<1> USE DEF Booked
<1>1. s \in Slots /\ s \notin {Sub, PidScheme} BY DEF Clients, Kept
<1>2. CASE Open(s) BY <1>2, OpenBooked
<1>3. CASE DupFails(s) BY <1>3, DupFailsBooked
<1>4. CASE Read(s) BY <1>1, <1>4, ReadBooked
<1>5. CASE Write(s)
  <2>1. fds[s].sub = "main" BY <1>1, <1>5 DEF SlotsInv, Write
  <2> QED BY <1>1, <1>5, <2>1, WriteBooked
<1>6. CASE Close(s) BY <1>1, <1>6, CloseBooked
<1> QED BY <1>2, <1>3, <1>4, <1>5, <1>6

-----------------------------------------------------------------------------
(* The invariant.                                                          *)

\* No one writes a stop, and the service is asked to clear only while a clear is on its way.
WindowInv ==
    /\ control.stop = FALSE
    /\ window = FALSE => control.clear = FALSE /\ WritesFollow(calls)
    /\ window = TRUE => \E w \in 0 .. Len(calls) : OnWay(control.clear, calls, w)

\* The counters are those of the requests that are in nobody's totals yet.
InService ==
    /\ window = TRUE \/ alive = FALSE => since = Zero
    /\ alive = TRUE /\ window = FALSE => management = since
    /\ \A k \in Kinds : management[k] <= served

\* Every request answered is in the totals, in the service or in the buffer, or is lost.
Balanced(sum, rest) == \A k \in Kinds : sum[k] + rest[k] = answered[k] - lost[k]

Sums ==
    IF Soon(calls, "add") THEN window = TRUE /\ Balanced(total, buffer)
    ELSE Balanced(total, since)

Within(list, op) == \E i \in 1 .. Len(list) : list[i].op = op

\* What info tells is what was known when the counts were read.
Told ==
    /\ Soon(calls, "take") => buffer = known.counts /\ Added(total, buffer) = known.total
    /\ running = TRUE /\ Within(calls, "tell") /\ ~Within(calls, "take") =>
         counts = known.counts /\ Added(total, counts) = known.total
    /\ running = FALSE => known = Nobody /\ counts = Zero /\ total = Zero
    /\ told # NoTold => calls = <<>> /\ told.counts = known.counts /\ told.total = known.total

LEMMA BalancedAdded ==
    ASSUME LedgerTypes, NEW c \in Counts, Balanced(total, c)
    PROVE  Added(total, c) = Minus(answered, lost)
BY DEF Balanced, Added, Minus

\* A request that no clear throws away is in the service, one that is thrown away is lost.
LEMMA BalancedGained ==
    ASSUME LedgerTypes, IsAnswer(reply'), NEW c \in Counts, Balanced(total, c), total' = total,
           answered' = Gained(answered),
           NEW d, \/ lost' = lost /\ d = Gained(c)
                  \/ lost' = Gained(lost) /\ d = c
    PROVE  \A k \in Kinds : total'[k] + d[k] = answered'[k] - lost'[k]
<1>1. /\ \A k \in Kinds : /\ Gained(answered)[k] = answered[k] + Gain(reply', k)
                          /\ Gained(lost)[k] = lost[k] + Gain(reply', k)
                          /\ Gained(c)[k] = c[k] + Gain(reply', k)
                          /\ Gain(reply', k) \in {0, 1}
  BY GainedValues DEF LedgerTypes
<1>2. \A k \in Kinds : /\ answered[k] \in Nat /\ lost[k] \in Nat /\ c[k] \in Nat /\ total[k] \in Nat
  BY DEF LedgerTypes, Counts
<1>3. \A k \in Kinds : total[k] + c[k] = answered[k] - lost[k] BY DEF Balanced
<1>4. CASE lost' = lost /\ d = Gained(c) BY <1>1, <1>2, <1>3, <1>4
<1>5. CASE lost' = Gained(lost) /\ d = c BY <1>1, <1>2, <1>3, <1>5
<1> QED BY <1>4, <1>5

-----------------------------------------------------------------------------
(* The requests.                                                           *)

\* What a request does to the books: totals says that it is the read for the totals.
Flow(totals) ==
    /\ answered' = Gained(answered)
    /\ \/ /\ totals /\ window = FALSE /\ window' = TRUE
          /\ lost' = lost /\ since' = Zero /\ control.clear = FALSE
       \/ /\ ~totals /\ window' = FALSE
          /\ lost' = lost /\ since' = Gained(since)
          /\ window = FALSE => control.clear = FALSE
          /\ window = TRUE => control.clear = TRUE /\ control'.clear = FALSE
       \/ /\ ~totals /\ window = TRUE /\ window' = TRUE
          /\ lost' = Gained(lost) /\ since' = since
          /\ control.clear = FALSE \/ control'.clear = TRUE

LEMMA BooksFlow ==
    ASSUME NEW by, Books(by), LedgerTypes, WindowInv,
           control.clear \in BOOLEAN, control'.clear \in BOOLEAN,
           NEW totals \in BOOLEAN, totals => window = FALSE,
           window' = (totals \/ (window /\ clears' = clears)),
           since' = IF totals THEN Zero
                    ELSE IF window /\ clears' = clears THEN since ELSE Gained(since)
    PROVE  Flow(totals)
<1>1. window \in BOOLEAN /\ clears \in Nat BY DEF LedgerTypes
<1>2. answered' = Gained(answered) BY DEF Books
<1>3. CASE window = FALSE
  <2>1. lost' = lost /\ control.clear = FALSE BY <1>3, BooksOutside DEF WindowInv
  <2> QED BY <1>2, <1>3, <2>1 DEF Flow
<1>4. CASE window = TRUE
  <2>1. CASE control.clear = TRUE /\ control'.clear = FALSE
    <3>1. lost' = lost /\ clears' = clears + 1 BY <1>4, <2>1, BooksCleared
    <3>2. clears' # clears BY <1>1, <3>1
    <3> QED BY <1>2, <1>4, <2>1, <3>1, <3>2 DEF Flow
  <2>2. CASE control.clear = FALSE \/ control'.clear = TRUE
    <3>1. lost' = Gained(lost) /\ clears' = clears BY <1>4, <2>2 DEF Books
    <3> QED BY <1>2, <1>4, <2>2, <3>1 DEF Flow
  <2> QED BY <2>1, <2>2
<1> QED BY <1>1, <1>3, <1>4

\* The monitor's requests, ...
LEMMA ServeFacts ==
    ASSUME FewRequests, Shaped, Serve
    PROVE  /\ calls # <<>> /\ calls' = Tail(calls) /\ Ordered(calls) /\ calls \in Seq(CallType)
           /\ calls[1] = Head(calls) /\ Requested(calls[1]) /\ Books("monitor")
           /\ Shape(calls[1]) /\ CallShape(calls[1])
           /\ Booked /\ IsAnswer(reply') /\ alive = TRUE /\ alive' = TRUE
           /\ control.clear \in BOOLEAN /\ control'.clear \in BOOLEAN
           /\ calls[1].op \in {"dup", "read", "close"} => control'.clear = FALSE
           /\ calls[1].op = "open" => control' = control
           /\ calls[1].op = "write" => control'.clear = TRUE
           /\ calls[1].op \in {"open", "dup", "read", "write", "close"}
           /\ UNCHANGED <<running, counts, total, told>>
<1> DEFINE call == Head(calls)
<1>1. /\ calls # <<>> /\ calls' = Tail(calls) /\ Requested(call) /\ Books("monitor")
      /\ UNCHANGED <<running, counts, total, told>>
  BY DEF Serve
<1>2. Tables /\ CountsType /\ SlotsInv /\ Ordered(calls) BY DEF Shaped
<1>3. /\ calls \in Seq(CallType) /\ Len(calls) \in Nat \ {0} /\ call = calls[1]
  BY <1>1, <1>2, TailValues DEF Ordered, CallsInOrder
<1>4. CallShape(call) /\ Shape(call)
  <2>1. 1 \in 1 .. Len(calls) BY <1>3
  <2>2. Shape(call) BY <1>2, <1>3, <2>1 DEF Ordered, Shapes
  <2>3. CallShape(call)
    BY <1>2, <1>3, <2>1, SlotsOfMonitor DEF Ordered, CallsInOrder, CallShape
  <2> QED BY <2>2, <2>3
<1> HIDE DEF call
<1>5. control.clear \in BOOLEAN BY <1>2 DEF CountsType
<1>6. /\ IsAnswer(reply') /\ control'.clear \in BOOLEAN
      /\ call.op \in {"dup", "read", "close"} => control'.clear = FALSE
      /\ call.op = "open" => control' = control
      /\ call.op = "write" => control'.clear = TRUE
  BY <1>1, <1>2, <1>4, <1>5, RequestedEffect
<1>7. alive = TRUE /\ alive' = TRUE BY <1>1, <1>2, <1>4, RequestedFrame
<1>8. Booked BY <1>1, <1>2, <1>4, RequestedBooked
<1>9. call.op \in {"open", "dup", "read", "write", "close"} BY <1>1 DEF Requested
<1>10. call = calls[1] /\ call = Head(calls) BY <1>3 DEF call
<1> QED BY <1>1, <1>2, <1>3, <1>4, <1>5, <1>6, <1>7, <1>8, <1>9, <1>10

LEMMA ServeTotals ==
    ASSUME FewRequests, Shaped, WindowInv, Serve
    PROVE  /\ ForTotals(Head(calls)) <=> TotalsRead(calls, 1)
           /\ TotalsRead(calls, 1) => window = FALSE
           /\ Counting(calls[1]) => window = FALSE
<1>1. calls # <<>> /\ calls \in Seq(CallType) /\ calls[1] = Head(calls) BY ServeFacts
<1>2. Len(calls) \in Nat BY <1>1
<1>3. ForTotals(Head(calls)) <=> TotalsRead(calls, 1)
  BY <1>1, <1>2 DEF ForTotals, TotalsRead
<1>4. Counting(calls[1]) => window # TRUE
  <2> SUFFICES ASSUME Counting(calls[1]), window = TRUE PROVE FALSE
    OBVIOUS
  <2>1. PICK w \in 0 .. Len(calls) : OnWay(control.clear, calls, w) BY DEF WindowInv
  <2>2. w \in Nat OBVIOUS
  <2>3. w = 0 \/ w = 1 \/ w > 1 BY <2>2
  <2> QED BY <1>1, <2>1, <2>2, <2>3, OnWayHead DEF Counting, AsksPid
<1>5. window \in BOOLEAN BY DEF Shaped, LedgerTypes
<1>6. TotalsRead(calls, 1) => Counting(calls[1]) BY DEF TotalsRead, Counting
<1> QED BY <1>3, <1>4, <1>5, <1>6

LEMMA ServeFlow ==
    ASSUME FewRequests, Shaped, WindowInv, Serve
    PROVE  Flow(TotalsRead(calls, 1))
<1> DEFINE totals == ForTotals(Head(calls))
<1>1. totals = TotalsRead(calls, 1)
  BY ServeTotals DEF TotalsRead, ForTotals
<1>2. totals \in BOOLEAN /\ (totals => window = FALSE)
  BY <1>1, ServeTotals DEF TotalsRead
<1>3. /\ window' = (totals \/ (window /\ clears' = clears))
      /\ since' = IF totals THEN Zero
                  ELSE IF window /\ clears' = clears THEN since ELSE Gained(since)
  BY DEF Serve
<1> HIDE DEF totals
<1>4. Flow(totals)
  BY <1>2, <1>3, ServeFacts, BooksFlow DEF Shaped
<1> QED BY <1>1, <1>4

LEMMA ServeWindow ==
    ASSUME FewRequests, Shaped, WindowInv, Serve PROVE WindowInv'
<1> DEFINE call == calls[1]
<1>1. /\ calls # <<>> /\ calls' = Tail(calls) /\ Ordered(calls) /\ calls \in Seq(CallType)
      /\ call = Head(calls) /\ Booked
      /\ control.clear \in BOOLEAN /\ control'.clear \in BOOLEAN
      /\ call.op \in {"dup", "read", "close"} => control'.clear = FALSE
      /\ call.op = "open" => control' = control
      /\ call.op = "write" => control'.clear = TRUE
      /\ call.op \in {"open", "dup", "read", "write", "close"}
  BY ServeFacts
<1> HIDE DEF call
<1>2. Flow(TotalsRead(calls, 1)) BY ServeFlow
<1>3. control'.stop = FALSE BY <1>1 DEF Booked, WindowInv
<1>4. Len(calls) \in Nat \ {0} /\ Len(calls') = Len(calls) - 1 BY <1>1, TailValues
<1>5. CASE window = FALSE
  <2>1. control.clear = FALSE /\ WritesFollow(calls) BY <1>5 DEF WindowInv
  <2>2. CASE TotalsRead(calls, 1)
    <3>1. call.op = "read" BY <2>2 DEF TotalsRead, call
    <3>2. window' = TRUE BY <1>2, <2>2 DEF Flow
    <3>3. control'.clear = FALSE BY <1>1, <3>1
    <3>4. OnWay(FALSE, calls', 6) BY <1>1, <2>2, OnWayStart
    <3>5. OnWay(control'.clear, calls', 6) BY <3>3, <3>4
    <3>6. 6 \in 0 .. Len(calls') BY <1>4, <3>4 DEF OnWay
    <3> QED BY <1>3, <3>2, <3>5, <3>6 DEF WindowInv
  <2>3. CASE ~TotalsRead(calls, 1)
    <3>1. window' = FALSE BY <1>2, <1>5, <2>3 DEF Flow
    <3>2. WritesFollow(calls') /\ call.op # "write"
      BY <1>1, <2>1, <2>3, TailFollows DEF Ordered
    <3>3. control'.clear = FALSE BY <1>1, <2>1, <3>2
    <3> QED BY <1>3, <3>1, <3>2, <3>3 DEF WindowInv
  <2> QED BY <2>2, <2>3
<1>6. CASE window = TRUE
  <2>1. PICK w \in 0 .. Len(calls) : OnWay(control.clear, calls, w) BY <1>6 DEF WindowInv
  <2>2. ~TotalsRead(calls, 1) BY <1>6, ServeTotals
  <2>3. w \in Nat /\ (w = 0 \/ w = 1 \/ w > 1) BY <1>4
  <2>4. CASE w = 0
    <3>1. call.op = "close" /\ control.clear = TRUE BY <1>1, <2>1, <2>4, OnWayHead DEF OnWay, call
    <3>2. control'.clear = FALSE BY <1>1, <3>1
    <3>3. window' = FALSE BY <1>2, <3>1, <3>2 DEF Flow
    <3>4. WritesFollow(calls') BY <1>1, <2>1, <2>4, OnWayOver
    <3> QED BY <1>3, <3>2, <3>3, <3>4 DEF WindowInv
  <2>5. CASE w > 0
    <3>1. control.clear = FALSE BY <2>1, <2>5 DEF OnWay
    <3>2. window' = TRUE BY <1>2, <1>6, <2>2, <3>1 DEF Flow
    <3>3. control'.clear = (w = 1)
      <4>1. CASE w = 1
        <5>1. call.op = "write" BY <1>1, <2>1, <4>1, OnWayHead DEF call
        <5> QED BY <1>1, <4>1, <5>1
      <4>2. CASE w > 1
        <5>1. call.op \in {"open", "dup", "close", "add", "read"}
          BY <1>1, <2>1, <2>3, <4>2, OnWayHead DEF call, AsksPid
        <5>2. control'.clear = FALSE BY <1>1, <3>1, <5>1
        <5>3. (w = 1) = FALSE BY <2>3, <4>2
        <5> QED BY <5>2, <5>3
      <4> QED BY <2>3, <2>5, <4>1, <4>2
    <3>4. OnWay(w = 1, Tail(calls), w - 1) BY <1>1, <2>1, <2>3, <2>5, OnWayNext
    <3>5. OnWay(control'.clear, calls', w - 1) BY <1>1, <3>3, <3>4
    <3>6. w - 1 \in 0 .. Len(calls') BY <1>4, <2>5, <3>5 DEF OnWay
    <3> QED BY <1>3, <3>2, <3>5, <3>6 DEF WindowInv
  <2> QED BY <2>3, <2>4, <2>5
<1>7. window \in BOOLEAN BY DEF Shaped, LedgerTypes
<1> QED BY <1>5, <1>6, <1>7

\* ... and those of the other clients.
LEMMA AskFacts ==
    ASSUME FewRequests, Shaped, Ask
    PROVE  /\ Booked /\ IsAnswer(reply') /\ Books("other") /\ alive = TRUE /\ alive' = TRUE
           /\ control.clear \in BOOLEAN /\ control'.clear \in BOOLEAN
           /\ control'.clear = control.clear \/ control'.clear = FALSE
           /\ UNCHANGED <<calls, running, buffer, counts, total, told, known>>
<1>1. PICK s \in Clients : Open(s) \/ DupFails(s) \/ Read(s) \/ Write(s) \/ Close(s)
  BY DEF Ask
<1>2. Tables /\ CountsType /\ SlotsInv BY DEF Shaped
<1>3. control.clear \in BOOLEAN BY <1>2 DEF CountsType
<1>4. /\ IsAnswer(reply')
      /\ control'.clear = control.clear \/ control'.clear = FALSE
  BY <1>1, <1>2, <1>3, AskedEffect
<1>5. Booked BY <1>1, <1>2, AskedBooked
<1>6. alive = TRUE /\ alive' = TRUE BY <1>1, <1>2, AskedFrame
<1>7. Books("other") /\ UNCHANGED <<calls, running, buffer, counts, total, told, known>>
  BY DEF Ask, entry
<1> QED BY <1>3, <1>4, <1>5, <1>6, <1>7

LEMMA AskFlow ==
    ASSUME FewRequests, Shaped, WindowInv, Ask
    PROVE  Flow(FALSE)
<1>1. /\ window' = (FALSE \/ (window /\ clears' = clears))
      /\ since' = IF FALSE THEN Zero
                  ELSE IF window /\ clears' = clears THEN since ELSE Gained(since)
  BY DEF Ask
<1> QED BY <1>1, AskFacts, BooksFlow DEF Shaped

LEMMA AskWindow ==
    ASSUME FewRequests, Shaped, WindowInv, Ask PROVE WindowInv'
<1>1. /\ Booked /\ calls' = calls
      /\ control.clear \in BOOLEAN /\ control'.clear \in BOOLEAN
      /\ control'.clear = control.clear \/ control'.clear = FALSE
  BY AskFacts
<1>2. Flow(FALSE) BY AskFlow
<1>3. control'.stop = FALSE BY <1>1 DEF Booked, WindowInv
<1>4. calls \in Seq(CallType) /\ window \in BOOLEAN
  BY DEF Shaped, Ordered, CallsInOrder, LedgerTypes
<1>5. CASE window = FALSE
  <2>1. control.clear = FALSE /\ WritesFollow(calls) BY <1>5 DEF WindowInv
  <2>2. window' = FALSE BY <1>2, <1>5 DEF Flow
  <2>3. control'.clear = FALSE /\ WritesFollow(calls') BY <1>1, <2>1
  <2> QED BY <1>3, <2>2, <2>3 DEF WindowInv
<1>6. CASE window = TRUE
  <2>1. PICK w \in 0 .. Len(calls) : OnWay(control.clear, calls, w) BY <1>6 DEF WindowInv
  <2>2. CASE control.clear = TRUE /\ control'.clear = FALSE
    <3>1. window' = FALSE BY <1>2, <2>2 DEF Flow
    <3>2. w = 0
      <4>1. ~(w > 0) BY <2>1, <2>2 DEF OnWay
      <4> QED BY <4>1
    <3>3. WritesFollow(calls) BY <1>4, <2>1, <3>2, OnWayOver
    <3>4. WritesFollow(calls') BY <1>1, <3>3
    <3> QED BY <1>3, <2>2, <3>1, <3>4 DEF WindowInv
  <2>3. CASE ~(control.clear = TRUE /\ control'.clear = FALSE)
    <3>1. control'.clear = control.clear BY <1>1, <2>3
    <3>2. window' = TRUE BY <1>2, <1>6, <2>3 DEF Flow
    <3>3. OnWay(control'.clear, calls', w) /\ w \in 0 .. Len(calls') BY <1>1, <2>1, <3>1
    <3> QED BY <1>3, <3>2, <3>3 DEF WindowInv
  <2> QED BY <2>2, <2>3
<1> QED BY <1>4, <1>5, <1>6

\* The counters after a request.
LEMMA FlowService ==
    ASSUME Shaped, InService, Booked, IsAnswer(reply'), alive = TRUE, alive' = TRUE,
           NEW totals, Flow(totals)
    PROVE  InService'
<1>1. /\ management \in Counts /\ since \in Counts /\ served \in Nat
      /\ Updated[1] = IF control.clear THEN Zero ELSE management
  <2>1. management \in Counts /\ requests \in Counts /\ since \in Counts
    BY DEF Shaped, CountsType, LedgerTypes
  <2>2. served \in Nat BY BaseAssumption DEF Shaped, Tables, TablesType
  <2> QED BY <2>1, <2>2, UpdatedValues
<1>2. Zero \in Counts /\ \A k \in Kinds : Zero[k] = 0 BY DEF Zero, Counts
<1>3. window' = TRUE => since' = Zero
  BY DEF Flow, InService
<1>4. window' = FALSE => management' = since'
  <2> SUFFICES ASSUME window' = FALSE PROVE management' = since'
    OBVIOUS
  <2>1. /\ since' = Gained(since)
        /\ window = FALSE => control.clear = FALSE
        /\ window = TRUE => control.clear = TRUE /\ control'.clear = FALSE
    BY DEF Flow
  <2>2. CASE window = FALSE
    <3>1. management = since /\ control.clear = FALSE BY <2>1, <2>2 DEF InService
    <3>2. Updated[1] = management BY <1>1, <3>1
    <3>3. management' = Gained(management) BY <3>2 DEF Booked
    <3> QED BY <2>1, <3>1, <3>3
  <2>3. CASE window = TRUE
    <3>1. since = Zero /\ control.clear = TRUE /\ control'.clear = FALSE
      BY <2>1, <2>3 DEF InService
    <3>2. Updated[1] = Zero BY <1>1, <3>1
    <3>3. control' # control BY <3>1
    <3>4. management' = Gained(Updated[1]) BY <3>3 DEF Booked
    <3> QED BY <2>1, <3>1, <3>2, <3>4
  <2>4. window \in BOOLEAN BY DEF Shaped, LedgerTypes
  <2> QED BY <2>2, <2>3, <2>4
<1>5. \A k \in Kinds : management'[k] <= served'
  <2>1. \A k \in Kinds : management[k] <= served BY DEF InService
  <2>2. \A k \in Kinds : management[k] \in Nat BY <1>1 DEF Counts
  <2>3. \A c \in Counts : \A k \in Kinds : Gained(c)[k] \in {c[k], c[k] + 1}
    <3> SUFFICES ASSUME NEW c \in Counts, NEW k \in Kinds PROVE Gained(c)[k] \in {c[k], c[k] + 1}
      OBVIOUS
    <3>1. Gained(c)[k] = c[k] + Gain(reply', k) /\ Gain(reply', k) \in {0, 1} BY GainedValues
    <3>2. c[k] \in Nat BY DEF Counts
    <3> QED BY <3>1, <3>2
  <2>4. served' = served + 1 BY DEF Booked
  <2>5. management' = Gained(management) \/ management' = Gained(Zero)
    BY <1>1 DEF Booked
  <2>6. CASE management' = Gained(management)
    <3>1. \A k \in Kinds : management'[k] \in {management[k], management[k] + 1}
      BY <1>1, <2>3, <2>6
    <3> QED BY <1>1, <2>1, <2>2, <2>4, <3>1
  <2>7. CASE management' = Gained(Zero)
    <3>1. \A k \in Kinds : management'[k] \in {0, 0 + 1} BY <1>2, <2>3, <2>7
    <3> QED BY <1>1, <2>4, <3>1
  <2> QED BY <2>5, <2>6, <2>7
<1> QED BY <1>3, <1>4, <1>5 DEF InService

\* What a read of the counts finds, while no clear is on its way.
LEMMA ReadFinds ==
    ASSUME FewRequests, SmallCounts, Shaped, WindowInv, InService, Serve, Counting(calls[1])
    PROVE  buffer' = since /\ window = FALSE /\ calls[1].slot = Sub /\ (\A c : Gained(c) = c)
<1>1. /\ calls # <<>> /\ calls[1] = Head(calls) /\ Requested(calls[1]) /\ Shape(calls[1])
      /\ alive = TRUE /\ Booked
  BY ServeFacts
<1>2. calls[1].op = "read" /\ calls[1].name = "request_count" BY DEF Counting
<1>3. calls[1].slot = Sub BY <1>1, <1>2 DEF Shape, Steps
<1>4. window = FALSE BY ServeTotals
<1>5. Tables /\ CountsType /\ ReadyAt(fds, calls) BY DEF Shaped
<1>6. fds[Sub].sub = "request_count" BY <1>1, <1>2, <1>3, <1>5 DEF ReadyAt
<1>7. Read(Sub) BY <1>1, <1>2, <1>3 DEF Requested
<1>8. reply'.counts = Updated[2] BY <1>5, <1>6, <1>7, ReadCounts, SlotsOfMonitor
<1>9. buffer' = reply'.counts BY <1>1, <1>2 DEF Serve
<1>10. Updated[2] = management
  <2>1. control.clear = FALSE /\ control.stop = FALSE BY <1>4 DEF WindowInv
  <2>2. management \in Counts /\ requests \in Counts BY <1>5 DEF CountsType
  <2>3. \A k \in Kinds : management[k] < Low7
    <3>1. served \in Nat /\ served < MaxRequests /\ MaxRequests \in Nat /\ Low7 \in Nat
      BY <1>5, <1>7, BaseAssumption DEF Tables, TablesType, Read, Request
    <3>2. \A k \in Kinds : management[k] \in Nat /\ management[k] <= served
      BY <2>2 DEF InService, Counts
    <3> QED BY <3>1, <3>2 DEF SmallCounts
  <2> QED BY <2>1, <2>2, <2>3, UpdatedValues
<1>11. management = since BY <1>1, <1>4 DEF InService
<1>12. \A c : Gained(c) = c
  <2>1. reply'.sub = fds[Sub].sub BY <1>7, ReadEffect
  <2> QED BY <1>6, <2>1 DEF Gained
<1> QED BY <1>3, <1>4, <1>8, <1>9, <1>10, <1>11, <1>12

\* When the counts are about to be added.
LEMMA SoonServe ==
    ASSUME FewRequests, Shaped, Serve, NEW op \in {"take", "add"}
    PROVE  /\ Soon(calls, op) => Soon(calls', op) /\ calls[1].op = "close"
           /\ Soon(calls', op) => \/ calls[1].op = "close" /\ Soon(calls, op)
                                  \/ Counting(calls[1]) /\ Len(calls) > 2 /\ calls[3].op = op
<1>1. /\ calls # <<>> /\ calls' = Tail(calls) /\ Ordered(calls) /\ calls \in Seq(CallType)
      /\ calls[1].op \in {"open", "dup", "read", "write", "close"}
  BY ServeFacts
<1>2. /\ Len(calls) \in Nat \ {0} /\ Len(calls') = Len(calls) - 1
      /\ \A i \in 1 .. Len(calls) - 1 : calls'[i] = calls[i + 1]
  BY <1>1, TailValues
<1>3. ASSUME Soon(calls, op) PROVE Soon(calls', op) /\ calls[1].op = "close"
  <2>1. calls[1].op # op BY <1>1
  <2>2. Len(calls) > 1 /\ calls[1].op = "close" /\ calls[2].op = op BY <1>3, <2>1 DEF Soon
  <2>3. 1 \in 1 .. Len(calls) - 1 /\ 1 + 1 = 2 BY <1>2, <2>2
  <2>4. calls'[1].op = op BY <1>2, <2>2, <2>3
  <2>5. calls' # <<>>
    <3>1. calls' = <<>> => Len(calls') = 0 OBVIOUS
    <3> QED BY <1>2, <2>2, <3>1
  <2> QED BY <2>2, <2>4, <2>5 DEF Soon
<1>4. ASSUME Soon(calls', op)
      PROVE  \/ calls[1].op = "close" /\ Soon(calls, op)
             \/ Counting(calls[1]) /\ Len(calls) > 2 /\ calls[3].op = op
  <2>1. Soon(Tail(calls), op) BY <1>1, <1>4
  <2> QED BY <1>1, <2>1, SoonNext
<1> QED BY <1>3, <1>4

\* In the window: what is on its way has no counts to add unless the write is still to come.
LEMMA AddComes ==
    ASSUME Shaped, WindowInv, Sums, Soon(calls, "add")
    PROVE  window = TRUE /\ control.clear = FALSE
<1>1. window = TRUE BY DEF Sums
<1>2. PICK w \in 0 .. Len(calls) : OnWay(control.clear, calls, w) BY <1>1 DEF WindowInv
<1>3. calls \in Seq(CallType) /\ w \in Nat BY DEF Shaped, Ordered, CallsInOrder
<1> QED BY <1>1, <1>2, <1>3, OnWayAdd

LEMMA ServeSums ==
    ASSUME FewRequests, SmallCounts, Shaped, WindowInv, InService, Sums, Serve
    PROVE  Sums'
<1>1. /\ calls # <<>> /\ IsAnswer(reply') /\ total' = total
      /\ calls[1] = Head(calls)
      /\ calls[1].op \in {"dup", "read", "close"} => control'.clear = FALSE
  BY ServeFacts
<1>2. Flow(TotalsRead(calls, 1)) BY ServeFlow
<1>3. answered' = Gained(answered) BY <1>2 DEF Flow
<1>4. LedgerTypes /\ since \in Counts /\ window \in BOOLEAN /\ BufferAt(buffer, calls)
  BY DEF Shaped, LedgerTypes
<1>5. TotalsRead(calls, 1) <=> Counting(calls[1]) /\ Len(calls) > 2 /\ calls[3].op = "add"
  <2>1. Len(calls) \in Nat BY DEF Shaped, Ordered, CallsInOrder
  <2> QED BY <2>1 DEF TotalsRead, Counting
<1>6. CASE Soon(calls, "add")
  <2>1. Soon(calls', "add") /\ calls[1].op = "close" BY <1>6, SoonServe
  <2>2. window = TRUE /\ control.clear = FALSE BY <1>6, AddComes
  <2>3. ~TotalsRead(calls, 1) BY <1>5, <2>1 DEF Counting
  <2>4. window' = TRUE /\ lost' = Gained(lost) BY <1>2, <2>2, <2>3 DEF Flow
  <2>5. buffer' = buffer BY <1>1, <2>1 DEF Serve
  <2>6. buffer \in Counts BY <1>4, <1>6 DEF BufferAt
  <2>7. Balanced(total, buffer) BY <1>6 DEF Sums
  <2>8. \A k \in Kinds : total'[k] + buffer[k] = answered'[k] - lost'[k]
    BY <1>1, <1>3, <1>4, <2>4, <2>6, <2>7, BalancedGained
  <2>9. Balanced(total, buffer)' BY <2>5, <2>8 DEF Balanced
  <2> QED BY <2>1, <2>4, <2>9 DEF Sums
<1>7. CASE ~Soon(calls, "add") /\ TotalsRead(calls, 1)
  <2>1. Balanced(total, since) BY <1>7 DEF Sums
  <2>2. buffer' = since /\ (\A c : Gained(c) = c) BY <1>5, <1>7, ReadFinds
  <2>3. window' = TRUE /\ lost' = lost BY <1>2, <1>7 DEF Flow
  <2>4. answered' = answered BY <1>3, <2>2
  <2>5. Balanced(total, buffer)' BY <1>1, <2>1, <2>2, <2>3, <2>4 DEF Balanced
  <2>6. Soon(calls', "add")
    <3>1. /\ calls' = Tail(calls) /\ calls \in Seq(CallType) /\ Ordered(calls) BY ServeFacts
    <3>2. /\ Len(calls) \in Nat \ {0} /\ Len(calls') = Len(calls) - 1
          /\ \A i \in 1 .. Len(calls) - 1 : calls'[i] = calls[i + 1]
      BY <1>1, <3>1, TailValues
    <3>3. Len(calls) > 2 /\ calls[3].op = "add" BY <1>5, <1>7
    <3>4. 1 \in 1 .. Len(calls) - 1 /\ 2 \in 1 .. Len(calls) - 1 /\ 1 + 1 = 2 /\ 2 + 1 = 3
      BY <3>2, <3>3
    <3>5. calls'[1] = calls[2] /\ calls'[2] = calls[3] BY <3>2, <3>4
    <3>6. Follows(calls[1], calls[2])
      <4>1. Follows(calls[1], calls[1 + 1]) BY <3>1, <3>4 DEF Ordered, Pairs
      <4> QED BY <3>4, <4>1
    <3>7. calls[2].op = "close"
      <4>1. calls[1].op = "read" /\ calls[1].slot = Sub BY <1>5, <1>7, ReadFinds DEF Counting
      <4> QED BY <3>6, <4>1 DEF Follows
    <3>8. calls' # <<>>
      <4>1. calls' = <<>> => Len(calls') = 0 OBVIOUS
      <4> QED BY <3>2, <3>3, <4>1
    <3>9. Len(calls') > 1 BY <3>2, <3>3
    <3> QED BY <3>3, <3>5, <3>7, <3>8, <3>9 DEF Soon
  <2> QED BY <2>3, <2>5, <2>6 DEF Sums
<1>8. CASE ~Soon(calls, "add") /\ ~TotalsRead(calls, 1)
  <2>1. Balanced(total, since) BY <1>8 DEF Sums
  <2>2. ~Soon(calls', "add") BY <1>5, <1>8, SoonServe
  <2>3. (lost' = lost /\ since' = Gained(since)) \/ (lost' = Gained(lost) /\ since' = since)
    BY <1>2, <1>8 DEF Flow
  <2>4. \A k \in Kinds : total'[k] + since'[k] = answered'[k] - lost'[k]
    BY <1>1, <1>3, <1>4, <2>1, <2>3, BalancedGained
  <2>5. Balanced(total, since)' BY <2>4 DEF Balanced
  <2> QED BY <2>2, <2>5 DEF Sums
<1> QED BY <1>6, <1>7, <1>8

LEMMA AskSums ==
    ASSUME FewRequests, Shaped, WindowInv, Sums, Ask
    PROVE  Sums'
<1>1. IsAnswer(reply') /\ total' = total /\ calls' = calls /\ buffer' = buffer BY AskFacts
<1>2. Flow(FALSE) BY AskFlow
<1>3. answered' = Gained(answered) BY <1>2 DEF Flow
<1>4. LedgerTypes /\ since \in Counts /\ BufferAt(buffer, calls)
  BY DEF Shaped, LedgerTypes
<1>5. CASE Soon(calls, "add")
  <2>1. Soon(calls', "add") BY <1>1, <1>5
  <2>2. window = TRUE /\ control.clear = FALSE BY <1>5, AddComes
  <2>3. window' = TRUE /\ lost' = Gained(lost) BY <1>2, <2>2 DEF Flow
  <2>4. buffer \in Counts BY <1>4, <1>5 DEF BufferAt
  <2>5. Balanced(total, buffer) BY <1>5 DEF Sums
  <2>6. \A k \in Kinds : total'[k] + buffer[k] = answered'[k] - lost'[k]
    BY <1>1, <1>3, <1>4, <2>3, <2>4, <2>5, BalancedGained
  <2>7. Balanced(total, buffer)' BY <1>1, <2>6 DEF Balanced
  <2> QED BY <2>1, <2>3, <2>7 DEF Sums
<1>6. CASE ~Soon(calls, "add")
  <2>1. Balanced(total, since) /\ ~Soon(calls', "add") BY <1>1, <1>6 DEF Sums
  <2>2. (lost' = lost /\ since' = Gained(since)) \/ (lost' = Gained(lost) /\ since' = since)
    BY <1>2 DEF Flow
  <2>3. \A k \in Kinds : total'[k] + since'[k] = answered'[k] - lost'[k]
    BY <1>1, <1>3, <1>4, <2>1, <2>2, BalancedGained
  <2>4. Balanced(total, since)' BY <2>3 DEF Balanced
  <2> QED BY <2>1, <2>4 DEF Sums
<1> QED BY <1>5, <1>6

LEMMA WithinTail ==
    ASSUME NEW list \in Seq(CallType), list # <<>>, NEW op
    PROVE  /\ Within(Tail(list), op) => Within(list, op)
           /\ Within(list, op) /\ list[1].op # op => Within(Tail(list), op)
<1> DEFINE rest == Tail(list)
<1>1. /\ Len(list) \in Nat \ {0} /\ Len(rest) = Len(list) - 1
      /\ \A i \in 1 .. Len(list) - 1 : rest[i] = list[i + 1]
  BY TailValues
<1> HIDE DEF rest
<1>2. ASSUME NEW i \in 1 .. Len(rest), rest[i].op = op PROVE Within(list, op)
  <2>1. i + 1 \in 1 .. Len(list) /\ list[i + 1].op = op BY <1>1, <1>2
  <2> QED BY <2>1 DEF Within
<1>3. ASSUME NEW i \in 1 .. Len(list), list[i].op = op, list[1].op # op PROVE Within(rest, op)
  <2>1. i # 1 BY <1>3
  <2>2. i - 1 \in 1 .. Len(list) - 1 /\ (i - 1) + 1 = i BY <1>1, <2>1
  <2>3. i - 1 \in 1 .. Len(rest) /\ rest[i - 1].op = op BY <1>1, <1>3, <2>2
  <2> QED BY <2>3 DEF Within
<1> QED BY <1>2, <1>3 DEF Within, rest

LEMMA ServeTold ==
    ASSUME FewRequests, SmallCounts, Shaped, WindowInv, InService, Sums, Told, Serve
    PROVE  Told'
<1>1. /\ calls # <<>> /\ calls' = Tail(calls) /\ Ordered(calls) /\ calls \in Seq(CallType)
      /\ calls[1] = Head(calls) /\ alive = TRUE
      /\ calls[1].op \in {"open", "dup", "read", "write", "close"}
      /\ UNCHANGED <<running, counts, total, told>>
  BY ServeFacts
<1>2. /\ LedgerTypes /\ since \in Counts /\ running \in BOOLEAN /\ Lives(alive, running, calls)
      /\ Len(calls) \in Nat \ {0}
  BY <1>1, TailValues DEF Shaped, LedgerTypes
<1>3. told = NoTold BY <1>1 DEF Told
<1>4. \A op \in {"tell", "take"} : Within(calls', op) <=> Within(calls, op)
  BY <1>1, WithinTail
<1>5. CASE Counting(calls[1])
  <2>1. buffer' = since /\ window = FALSE BY <1>5, ReadFinds
  <2>2. known' = [counts |-> since, total |-> Minus(answered, lost)]
    BY <1>1, <1>5 DEF Serve, Counting
  <2>3. known'.counts = since /\ known'.total = Minus(answered, lost) BY <2>2
  <2>4. ~Soon(calls, "add") BY <2>1 DEF Sums
  <2>5. Added(total, since) = Minus(answered, lost) BY <1>2, <2>4, BalancedAdded DEF Sums
  <2>6. running = TRUE
    <3>1. 1 \in 1 .. Len(calls) BY <1>2
    <3>2. calls[1].op = "read" /\ calls[1].name # "pid" BY <1>5 DEF Counting
    <3> QED BY <1>2, <3>1, <3>2 DEF Lives
  <2>7. Within(calls, "tell") => Within(calls, "take")
    <3>1. 1 + 2 <= Len(calls) /\ Takes(calls[1 + 2])
      <4>1. 1 \in 1 .. Len(calls) BY <1>2
      <4> QED BY <1>1, <1>5, <4>1 DEF Ordered, Taken
    <3>2. 3 \in 1 .. Len(calls) /\ calls[3].op \in {"take", "add"} BY <1>2, <3>1 DEF Takes
    <3>3. calls[3].op = "add" => ~Within(calls, "tell")
      BY <1>1, <3>2 DEF Ordered, Ended, Within
    <3> QED BY <3>2, <3>3 DEF Within
  <2>8. buffer' = known'.counts /\ Added(total', buffer') = known'.total
    BY <1>1, <2>1, <2>3, <2>5
  <2> QED BY <1>1, <1>3, <1>4, <2>6, <2>7, <2>8 DEF Told
<1>6. CASE ~Counting(calls[1])
  <2>1. known' = known BY <1>1, <1>6 DEF Serve, Counting
  <2>2. Soon(calls', "take") => Soon(calls, "take") /\ calls[1].op = "close"
    BY <1>6, SoonServe
  <2>3. calls[1].op = "close" => buffer' = buffer BY <1>1 DEF Serve
  <2>4. Soon(calls', "take") => buffer' = known'.counts /\ Added(total', buffer') = known'.total
    BY <1>1, <2>1, <2>2, <2>3 DEF Told
  <2>5. running' = TRUE /\ Within(calls', "tell") /\ ~Within(calls', "take") =>
          counts' = known'.counts /\ Added(total', counts') = known'.total
    BY <1>1, <1>4, <2>1 DEF Told
  <2>6. running' = FALSE => known' = Nobody /\ counts' = Zero /\ total' = Zero
    BY <1>1, <2>1 DEF Told
  <2> QED BY <1>1, <1>3, <2>4, <2>5, <2>6 DEF Told
<1> QED BY <1>5, <1>6

-----------------------------------------------------------------------------
(* The other actions.                                                      *)

LedgerBooks == WindowInv /\ InService /\ Sums /\ Told

\* A call that times out: what the old process counted is lost, and the new one has
\* counted nothing.
LEMMA TimedOutHead ==
    ASSUME Shaped, TimedOut
    PROVE  /\ calls # <<>> /\ Ordered(calls) /\ calls \in Seq(CallType) /\ Len(calls) \in Nat
           /\ calls[1].op \in {"read", "write"} /\ calls[1].name # "pid"
           /\ calls[2].op = "close" /\ Len(calls) >= 2
           /\ AgainForm(calls', calls)
           /\ calls' # <<>> /\ calls'[1].op = "open" /\ running = TRUE
<1> DEFINE call == Head(calls)
<1>1. /\ calls # <<>> /\ call.op \in {"read", "write"} /\ call.name # "pid"
      /\ calls' = RecoverCalls \o Helper(call.op, call.name) \o Tail(Tail(calls))
  BY DEF TimedOut
<1>2. /\ LedgerTypes /\ Ordered(calls) /\ Lives(alive, running, calls)
  BY DEF Shaped
<1>3. /\ calls \in Seq(CallType) /\ Len(calls) \in Nat \ {0} /\ call = calls[1]
  BY <1>1, <1>2, TailValues DEF Ordered, CallsInOrder
<1> HIDE DEF call
<1>4. AgainForm(calls', calls) BY <1>1, <1>2, <1>3, AgainFront
<1>5. calls' # <<>> /\ calls'[1].op = "open"
  <2>1. Len(calls') = Len(calls) + 11 BY <1>4 DEF AgainForm
  <2>2. calls'[1].op = "open" BY <1>3, <1>4, AgainOps
  <2>3. calls' = <<>> => Len(calls') = 0 OBVIOUS
  <2> QED BY <1>3, <2>1, <2>2, <2>3
<1>6. running = TRUE
  <2>1. 1 \in 1 .. Len(calls) BY <1>3
  <2>2. running # FALSE BY <1>1, <1>2, <1>3, <2>1 DEF Lives
  <2> QED BY <1>2, <2>2 DEF LedgerTypes
<1>7. Len(calls) >= 2 /\ calls[2].op = "close"
  <2>1. Len(calls) >= 2 /\ calls[2] = Call("close", Sub, "none")
    BY <1>1, <1>2, <1>3, HelperLeft
  <2>2. Call("close", Sub, "none").op = "close" BY DEF Call
  <2> QED BY <2>1, <2>2
<1> QED BY <1>1, <1>2, <1>3, <1>4, <1>5, <1>6, <1>7

LEMMA NewFlags ==
    ASSUME NewProcess
    PROVE  control'.stop = FALSE /\ control'.clear = FALSE /\ management' = Zero /\ served' = 0
<1>1. control' = [stop |-> FALSE, clear |-> FALSE] /\ management' = Zero /\ served' = 0
  BY DEF NewProcess
<1> QED BY <1>1, Flags, StopFlag

LEMMA ZeroServed == \A k \in Kinds : Zero[k] = 0
BY DEF Zero

LEMMA TimedOutBooks ==
    ASSUME Shaped, LedgerBooks, TimedOut
    PROVE  LedgerBooks'
<1>1. /\ calls # <<>> /\ Ordered(calls) /\ calls \in Seq(CallType) /\ Len(calls) \in Nat
      /\ calls[1].op \in {"read", "write"} /\ calls[1].name # "pid"
      /\ calls[2].op = "close" /\ Len(calls) >= 2
      /\ AgainForm(calls', calls)
      /\ calls' # <<>> /\ calls'[1].op = "open" /\ running = TRUE
  BY TimedOutHead
<1>2. /\ NewProcess /\ lost' = Added(lost, since) /\ since' = Zero
      /\ UNCHANGED <<running, buffer, counts, total, told, answered, window, known>>
  BY DEF TimedOut, entry
<1>3. /\ control'.stop = FALSE /\ control'.clear = FALSE /\ management' = Zero /\ served' = 0
  BY <1>2, NewFlags
<1>4. ~Soon(calls', "take") /\ ~Soon(calls', "add") BY <1>1, SoonNot
<1>5. window \in BOOLEAN /\ LedgerTypes BY DEF Shaped, LedgerTypes
<1>6. WindowInv'
  <2>1. CASE window = FALSE
    <3>1. WritesFollow(calls) BY <2>1 DEF LedgerBooks, WindowInv
    <3>2. WritesFollow(calls') BY <1>1, <3>1, AgainOrdered
    <3> QED BY <1>2, <1>3, <2>1, <3>2 DEF WindowInv
  <2>2. CASE window = TRUE
    <3>1. PICK w \in 0 .. Len(calls) : OnWay(control.clear, calls, w)
      BY <2>2 DEF LedgerBooks, WindowInv
    <3>2. w = 1
      <4>1. w \in Nat /\ (w = 0 \/ w = 1 \/ w > 1) BY <1>1
      <4> QED BY <1>1, <3>1, <4>1, OnWayHead DEF AsksPid
    <3>3. OnWay(FALSE, calls', 12) BY <1>1, <3>1, <3>2, OnWayAgain
    <3>4. 12 \in 0 .. Len(calls')
      <4>1. Len(calls') = Len(calls) + 11 BY <1>1 DEF AgainForm
      <4> QED BY <1>1, <4>1
    <3>5. OnWay(control'.clear, calls', 12) BY <1>3, <3>3
    <3> QED BY <1>2, <1>3, <2>2, <3>4, <3>5 DEF WindowInv
  <2> QED BY <1>5, <2>1, <2>2
<1>7. InService' BY <1>2, <1>3, ZeroServed DEF InService
<1>8. Sums'
  <2>1. ~Soon(calls, "add") BY <1>1 DEF Soon
  <2>2. Balanced(total, since) BY <2>1 DEF LedgerBooks, Sums
  <2>3. \A k \in Kinds : Added(lost, since)[k] = lost[k] + since[k]
    BY <1>5, AddedCounts DEF LedgerTypes
  <2>4. \A k \in Kinds : /\ total[k] \in Nat /\ since[k] \in Nat /\ answered[k] \in Nat
                         /\ lost[k] \in Nat
    BY <1>5 DEF LedgerTypes, Counts
  <2>5. \A k \in Kinds : total[k] + 0 = answered[k] - (lost[k] + since[k])
    BY <2>2, <2>4 DEF Balanced
  <2>6. Balanced(total, since)' BY <1>2, <2>3, <2>5, ZeroServed DEF Balanced
  <2> QED BY <1>4, <2>6 DEF Sums
<1>9. Told'
  <2>1. told = NoTold BY <1>1 DEF LedgerBooks, Told
  <2>2. Within(calls', "tell") => Within(calls, "tell")
    <3> SUFFICES ASSUME NEW i \in 1 .. Len(calls'), calls'[i].op = "tell"
                 PROVE  Within(calls, "tell")
      BY DEF Within
    <3>1. Len(calls') = Len(calls) + 11 /\ \A j \in 12 .. Len(calls') : calls'[j] = calls[j - 11]
      BY <1>1 DEF AgainForm
    <3>2. i \in 12 .. Len(calls')
      <4> SUFFICES ASSUME i \notin 12 .. Len(calls') PROVE FALSE
        OBVIOUS
      <4>1. i \in {1, 4, 9} \/ i \in {2, 5, 10} \/ i \in {6, 8, 11} \/ i \in {3, 7} BY <1>1, <3>1
      <4> DEFINE list == calls'
      <4>2. list = calls' /\ AgainForm(list, calls) /\ Len(calls) \in Nat BY <1>1
      <4> HIDE DEF list
      <4>3. /\ list[1].op = "open" /\ list[2].op = "dup" /\ list[3].op = "read"
            /\ list[7].op = "read" /\ list[8].op = "close"
            /\ \A j \in {4, 9} : list[j].op = "open" /\ list[j].slot = Main
            /\ \A j \in {5, 10} : list[j].op = "dup" /\ list[j].slot = Sub
            /\ \A j \in {6, 11} : list[j].op = "close" /\ list[j].slot = Main /\ list[j].name = "none"
        BY ONLY <4>2, AgainOps
      <4>4. list[i].op = "tell" BY <4>2
      <4> QED BY ONLY <4>1, <4>3, <4>4
    <3>3. i - 11 \in 1 .. Len(calls) /\ calls[i - 11].op = "tell" BY <1>1, <3>1, <3>2
    <3> QED BY <3>3 DEF Within
  <2>3. Within(calls, "take") => Within(calls', "take")
    <3> SUFFICES ASSUME NEW i \in 1 .. Len(calls), calls[i].op = "take"
                 PROVE  Within(calls', "take")
      BY DEF Within
    <3>1. Len(calls') = Len(calls) + 11 /\ \A j \in 12 .. Len(calls') : calls'[j] = calls[j - 11]
      BY <1>1 DEF AgainForm
    <3>2. i + 11 \in 12 .. Len(calls') /\ (i + 11) - 11 = i /\ i + 11 \in 1 .. Len(calls')
      BY <1>1, <3>1
    <3>3. calls'[i + 11].op = "take" BY <3>1, <3>2
    <3> QED BY <3>2, <3>3 DEF Within
  <2>4. Within(calls', "tell") /\ ~Within(calls', "take") =>
          counts = known.counts /\ Added(total, counts) = known.total
    BY <1>1, <2>2, <2>3 DEF LedgerBooks, Told
  <2> QED BY <1>1, <1>2, <1>4, <2>1, <2>4 DEF Told
<1> QED BY <1>6, <1>7, <1>8, <1>9 DEF LedgerBooks

\* A step on the entry: only the addition to the totals comes while a clear is on its way.
LEMMA StepFacts ==
    ASSUME Shaped, WindowInv, NEW op \in Steps, Step(op)
    PROVE  /\ calls # <<>> /\ Ordered(calls) /\ calls[1].op = op /\ calls' = Tail(calls)
           /\ calls \in Seq(CallType)
           /\ \A o \in {"take", "add"} : ~Soon(calls', o) /\ (Soon(calls, o) <=> o = op)
           /\ window = FALSE => control.clear = FALSE /\ WritesFollow(calls')
           /\ window = TRUE => \E w \in 0 .. Len(calls') : OnWay(control.clear, calls', w)
           /\ op # "add" => window = FALSE
<1>1. /\ calls # <<>> /\ Ordered(calls) /\ calls[1].op = op /\ calls' = Tail(calls)
  BY StepHead
<1>2. calls \in Seq(CallType) /\ CallsInOrder(calls) BY <1>1 DEF Ordered, CallsInOrder
<1>3. \A o \in {"take", "add"} : ~Soon(calls', o) BY <1>1, StepLeaves
<1>4. \A o \in {"take", "add"} : Soon(calls, o) <=> o = op BY <1>1 DEF Soon, Steps
<1>5. ASSUME window = FALSE PROVE control.clear = FALSE /\ WritesFollow(calls')
  <2>1. control.clear = FALSE /\ WritesFollow(calls) BY <1>5 DEF WindowInv
  <2>2. ~TotalsRead(calls, 1) BY <1>1 DEF TotalsRead, Steps
  <2> QED BY <1>1, <1>2, <2>1, <2>2, TailFollows
<1>6. ASSUME window = TRUE
      PROVE  op = "add" /\ \E w \in 0 .. Len(calls') : OnWay(control.clear, calls', w)
  <2>1. PICK w \in 0 .. Len(calls) : OnWay(control.clear, calls, w) BY <1>6 DEF WindowInv
  <2>2. Len(calls) \in Nat \ {0} /\ Len(calls') = Len(calls) - 1 BY <1>1, <1>2, TailValues
  <2>3. w \in Nat /\ (w = 0 \/ w = 1 \/ w > 1) BY <2>2
  <2>4. w > 1 /\ op = "add" BY <1>1, <1>2, <2>1, <2>3, OnWayHead DEF Steps, AsksPid
  <2>5. OnWay(w = 1, calls', w - 1) BY <1>1, <1>2, <2>1, <2>3, <2>4, OnWayNext
  <2>6. control.clear = FALSE BY <2>1, <2>4 DEF OnWay
  <2>7. (w = 1) = FALSE BY <2>3, <2>4
  <2>8. OnWay(control.clear, calls', w - 1) BY <2>5, <2>6, <2>7
  <2>9. w - 1 \in 0 .. Len(calls') BY <2>2, <2>4, <2>8 DEF OnWay
  <2> QED BY <2>4, <2>8, <2>9
<1>7. window \in BOOLEAN BY DEF Shaped, LedgerTypes
<1> QED BY <1>1, <1>2, <1>3, <1>4, <1>5, <1>6, <1>7

LEMMA StepBooks ==
    ASSUME Shaped, WindowInv, InService, NEW op \in Steps, Step(op),
           UNCHANGED <<control, management, served, window, since, alive>>
    PROVE  WindowInv' /\ InService'
<1>1. /\ window = FALSE => control.clear = FALSE /\ WritesFollow(calls')
      /\ window = TRUE => \E w \in 0 .. Len(calls') : OnWay(control.clear, calls', w)
  BY StepFacts
<1>2. WindowInv' BY <1>1 DEF WindowInv
<1> QED BY <1>2 DEF InService

LEMMA TakeBooks ==
    ASSUME Shaped, LedgerBooks, Take PROVE LedgerBooks'
<1>1. /\ Step("take") /\ counts' = buffer /\ UNCHANGED vars /\ buffer' = buffer
      /\ UNCHANGED <<running, total, told, ghosts>>
  BY DEF Take, Step
<1>2. UNCHANGED <<control, management, served, window, since, alive, answered, lost, known>>
  BY <1>1 DEF vars, ghosts
<1>3. /\ calls # <<>> /\ Soon(calls, "take") /\ ~Soon(calls, "add")
      /\ ~Soon(calls', "take") /\ ~Soon(calls', "add")
  BY <1>1, StepFacts DEF LedgerBooks, Steps
<1>4. WindowInv' /\ InService' BY <1>1, <1>2, StepBooks DEF LedgerBooks, Steps
<1>5. Sums' BY <1>1, <1>2, <1>3 DEF LedgerBooks, Sums, Balanced
<1>6. Told'
  <2>1. buffer = known.counts /\ Added(total, buffer) = known.total BY <1>3 DEF LedgerBooks, Told
  <2>2. running = TRUE
    <3>1. calls[1].op = "take" /\ 1 \in 1 .. Len(calls) /\ Lives(alive, running, calls)
      BY <1>1, StepHead, TailValues DEF Ordered, CallsInOrder
    <3>2. running \in BOOLEAN BY DEF Shaped, LedgerTypes
    <3> QED BY <3>1, <3>2 DEF Lives
  <2>3. told = NoTold BY <1>3 DEF LedgerBooks, Told
  <2> QED BY <1>1, <1>2, <1>3, <2>1, <2>2, <2>3 DEF Told
<1> QED BY <1>4, <1>5, <1>6 DEF LedgerBooks

\* What changes the counts or the totals of the entry otherwise belongs to a clear.
LEMMA ClearSteps ==
    ASSUME Shaped, WindowInv, NEW op \in {"add", "zero"}, Step(op)
    PROVE  running = TRUE /\ ~Within(calls', "tell")
<1>1. /\ calls # <<>> /\ Ordered(calls) /\ calls[1].op = op /\ calls' = Tail(calls)
      /\ calls \in Seq(CallType)
  BY StepFacts DEF Steps
<1>2. 1 \in 1 .. Len(calls) BY <1>1, TailValues
<1>3. ~Within(calls, "tell") BY <1>1, <1>2 DEF Ordered, Ended, Within
<1>4. ~Within(calls', "tell") BY <1>1, <1>3, WithinTail
<1>5. running \in BOOLEAN /\ Lives(alive, running, calls) BY DEF Shaped, LedgerTypes
<1>6. running = TRUE BY <1>1, <1>2, <1>5 DEF Lives
<1> QED BY <1>4, <1>6

LEMMA AddUpBooks ==
    ASSUME Shaped, LedgerBooks, AddUp PROVE LedgerBooks'
<1>1. /\ Step("add") /\ total' = Added(total, buffer) /\ UNCHANGED vars /\ buffer' = buffer
      /\ UNCHANGED <<running, counts, told, ghosts>>
  BY DEF AddUp, Step
<1>2. UNCHANGED <<control, management, served, window, since, alive, answered, lost, known>>
  BY <1>1 DEF vars, ghosts
<1>3. /\ calls # <<>> /\ Soon(calls, "add") /\ ~Soon(calls', "take") /\ ~Soon(calls', "add")
  BY <1>1, StepFacts DEF LedgerBooks, Steps
<1>4. WindowInv' /\ InService' BY <1>1, <1>2, StepBooks DEF LedgerBooks, Steps
<1>5. Sums'
  <2>1. window = TRUE /\ Balanced(total, buffer) BY <1>3 DEF LedgerBooks, Sums
  <2>2. since = Zero BY <2>1 DEF LedgerBooks, InService
  <2>3. buffer \in Counts /\ total \in Counts
    BY <1>1, BufferTaken DEF Shaped, LedgerTypes
  <2>4. \A k \in Kinds : /\ Added(total, buffer)[k] = total[k] + buffer[k]
                         /\ total[k] \in Nat /\ buffer[k] \in Nat
    BY <2>3, AddedCounts DEF Counts
  <2>5. \A k \in Kinds : Added(total, buffer)[k] + 0 = answered[k] - lost[k]
    BY <2>1, <2>4 DEF Balanced
  <2>6. Balanced(total, since)' BY <1>1, <1>2, <2>2, <2>5, ZeroServed DEF Balanced
  <2> QED BY <1>3, <2>6 DEF Sums
<1>6. Told'
  <2>1. running = TRUE /\ ~Within(calls', "tell") BY <1>1, ClearSteps DEF LedgerBooks
  <2>2. told = NoTold BY <1>3 DEF LedgerBooks, Told
  <2> QED BY <1>1, <1>3, <2>1, <2>2 DEF Told
<1> QED BY <1>4, <1>5, <1>6 DEF LedgerBooks

LEMMA SetZeroBooks ==
    ASSUME Shaped, LedgerBooks, SetZero PROVE LedgerBooks'
<1>1. /\ Step("zero") /\ UNCHANGED vars /\ buffer' = buffer
      /\ UNCHANGED <<running, total, told, ghosts>>
  BY DEF SetZero, Step
<1>2. UNCHANGED <<control, management, served, window, since, alive, answered, lost, known>>
  BY <1>1 DEF vars, ghosts
<1>3. /\ calls # <<>> /\ ~Soon(calls, "add") /\ ~Soon(calls', "take") /\ ~Soon(calls', "add")
  BY <1>1, StepFacts DEF LedgerBooks, Steps
<1>4. WindowInv' /\ InService' BY <1>1, <1>2, StepBooks DEF LedgerBooks, Steps
<1>5. Sums' BY <1>1, <1>2, <1>3 DEF LedgerBooks, Sums, Balanced
<1>6. Told'
  <2>1. running = TRUE /\ ~Within(calls', "tell") BY <1>1, ClearSteps DEF LedgerBooks
  <2>2. told = NoTold BY <1>3 DEF LedgerBooks, Told
  <2> QED BY <1>1, <1>3, <2>1, <2>2 DEF Told
<1> QED BY <1>4, <1>5, <1>6 DEF LedgerBooks

\* The answer of info is what was known: zero for a service that is not running.
LEMMA TellBooks ==
    ASSUME Shaped, LedgerBooks, Tell PROVE LedgerBooks'
<1>1. /\ Step("tell") /\ UNCHANGED vars /\ buffer' = buffer
      /\ told' = [counts |-> IF running THEN counts ELSE Zero, total |-> Added(total, counts)]
      /\ UNCHANGED <<running, counts, total, ghosts>>
  BY DEF Tell, Step
<1>2. UNCHANGED <<control, management, served, window, since, alive, answered, lost, known>>
  BY <1>1 DEF vars, ghosts
<1>3. /\ calls # <<>> /\ Ordered(calls) /\ calls[1].op = "tell" /\ calls' = Tail(calls)
      /\ calls \in Seq(CallType)
      /\ ~Soon(calls, "add") /\ ~Soon(calls', "take") /\ ~Soon(calls', "add")
  BY <1>1, StepFacts DEF LedgerBooks, Steps
<1>4. WindowInv' /\ InService' BY <1>1, <1>2, StepBooks DEF LedgerBooks, Steps
<1>5. Sums' BY <1>1, <1>2, <1>3 DEF LedgerBooks, Sums, Balanced
<1>6. Told'
  <2>1. calls' = <<>> BY <1>3, LastCalls
  <2>2. ~Within(calls', "tell")
    <3>1. Len(calls') = 0 BY <2>1
    <3> QED BY <3>1 DEF Within
  <2>3. Within(calls, "tell") /\ ~Within(calls, "take")
    <3>1. Len(calls) \in Nat \ {0} BY <1>3, TailValues
    <3>2. 1 \in 1 .. Len(calls) BY <3>1
    <3>3. Len(calls) = 1 BY <1>3, <3>2 DEF Ordered, Ended
    <3>4. \A i \in 1 .. Len(calls) : i = 1 BY <3>3
    <3> QED BY <1>3, <3>2, <3>4 DEF Within
  <2>4. told'.counts = known.counts /\ told'.total = known.total
    <3>1. /\ told'.counts = (IF running THEN counts ELSE Zero)
          /\ told'.total = Added(total, counts)
      BY <1>1
    <3>2. CASE running = TRUE
      <4>1. counts = known.counts /\ Added(total, counts) = known.total
        BY <2>3, <3>2 DEF LedgerBooks, Told
      <4> QED BY <3>1, <3>2, <4>1
    <3>3. CASE running = FALSE
      <4>1. known = Nobody /\ counts = Zero /\ total = Zero BY <3>3 DEF LedgerBooks, Told
      <4>2. Added(Zero, Zero) = Zero BY DEF Added, Zero
      <4> QED BY <3>1, <3>3, <4>1, <4>2 DEF Nobody
    <3>4. running \in BOOLEAN BY DEF Shaped, LedgerTypes
    <3> QED BY <3>2, <3>3, <3>4
  <2>5. running' = FALSE => known' = Nobody /\ counts' = Zero /\ total' = Zero
    BY <1>1, <1>2 DEF LedgerBooks, Told
  <2> QED BY <1>1, <1>2, <1>3, <2>1, <2>2, <2>4, <2>5 DEF Told
<1> QED BY <1>4, <1>5, <1>6 DEF LedgerBooks

\* The requests.
LEMMA ServeBooks ==
    ASSUME FewRequests, SmallCounts, Shaped, LedgerBooks, Serve PROVE LedgerBooks'
<1> USE DEF LedgerBooks
<1>1. WindowInv' BY ServeWindow
<1>2. Flow(TotalsRead(calls, 1)) BY ServeFlow
<1>3. Booked /\ IsAnswer(reply') /\ alive = TRUE /\ alive' = TRUE BY ServeFacts
<1>4. InService' BY <1>2, <1>3, FlowService
<1>5. Sums' BY ServeSums
<1>6. Told' BY ServeTold
<1> QED BY <1>1, <1>4, <1>5, <1>6

LEMMA AskBooks ==
    ASSUME FewRequests, Shaped, LedgerBooks, Ask PROVE LedgerBooks'
<1> USE DEF LedgerBooks
<1>1. WindowInv' BY AskWindow
<1>2. Flow(FALSE) BY AskFlow
<1>3. /\ Booked /\ IsAnswer(reply') /\ alive = TRUE /\ alive' = TRUE
      /\ UNCHANGED <<calls, running, buffer, counts, total, told, known>>
  BY AskFacts
<1>4. InService' BY <1>2, <1>3, FlowService
<1>5. Sums' BY AskSums
<1>6. Told' BY <1>3 DEF Told
<1> QED BY <1>1, <1>4, <1>5, <1>6

\* What no list has that is empty.
LEMMA NothingLeft ==
    ASSUME NEW list, list = <<>>
    PROVE  /\ \A op : ~Soon(list, op) /\ ~Within(list, op)
           /\ WritesFollow(list)
<1>1. Len(list) = 0 OBVIOUS
<1> QED BY <1>1 DEF Soon, Within, WritesFollow

\* The start ends: nothing has been told of the service yet.
LEMMA RunBooks ==
    ASSUME Shaped, LedgerBooks, Run PROVE LedgerBooks'
<1>1. /\ Step("run") /\ running' = TRUE /\ UNCHANGED vars /\ buffer' = buffer
      /\ UNCHANGED <<counts, total, told, ghosts>>
  BY DEF Run, Step
<1>2. UNCHANGED <<control, management, served, window, since, alive, answered, lost, known>>
  BY <1>1 DEF vars, ghosts
<1>3. /\ calls # <<>> /\ Ordered(calls) /\ calls[1].op = "run" /\ calls' = Tail(calls)
      /\ ~Soon(calls, "add")
  BY <1>1, StepFacts DEF LedgerBooks, Steps
<1>4. WindowInv' /\ InService' BY <1>1, <1>2, StepBooks DEF LedgerBooks, Steps
<1>5. calls' = <<>> BY <1>3, LastCalls
<1>6. \A op : ~Soon(calls', op) /\ ~Within(calls', op) BY <1>5, NothingLeft
<1>7. Sums' BY <1>1, <1>2, <1>3, <1>6 DEF LedgerBooks, Sums, Balanced
<1>8. Told'
  <2>1. told = NoTold BY <1>3 DEF LedgerBooks, Told
  <2> QED BY <1>1, <1>6, <2>1 DEF Told
<1> QED BY <1>4, <1>7, <1>8 DEF LedgerBooks

\* A new process has counted nothing, and neither has the entry.
LEMMA SpawnBooks ==
    ASSUME Shaped, LedgerBooks, Spawn PROVE LedgerBooks'
<1>1. /\ Step("spawn") /\ NewProcess /\ buffer' = buffer
      /\ UNCHANGED <<running, counts, total, told, ghosts>>
  BY DEF Spawn, Step
<1>2. UNCHANGED <<window, since, answered, lost, known>> BY <1>1 DEF ghosts
<1>3. /\ calls # <<>> /\ Ordered(calls) /\ calls[1].op = "spawn" /\ calls' = Tail(calls)
      /\ Lives(alive, running, calls) /\ alive \in BOOLEAN /\ running \in BOOLEAN
  BY <1>1, StepHead
<1>4. /\ window = FALSE /\ WritesFollow(calls') /\ ~Soon(calls, "add")
      /\ ~Soon(calls', "take") /\ ~Soon(calls', "add")
  BY <1>1, StepFacts DEF LedgerBooks, Steps
<1>5. /\ control'.stop = FALSE /\ control'.clear = FALSE /\ management' = Zero /\ served' = 0
  BY <1>1, NewFlags
<1>6. alive = FALSE /\ running = FALSE
  <2>1. 1 \in 1 .. Len(calls) BY <1>3, TailValues DEF Ordered, CallsInOrder
  <2>2. alive # TRUE BY <1>3, <2>1 DEF Lives
  <2> QED BY <1>3, <2>2 DEF Lives
<1>7. since = Zero BY <1>6 DEF LedgerBooks, InService
<1>8. WindowInv' BY <1>2, <1>4, <1>5 DEF WindowInv
<1>9. InService' BY <1>2, <1>5, <1>7, ZeroServed DEF InService
<1>10. Sums' BY <1>1, <1>2, <1>4 DEF LedgerBooks, Sums, Balanced
<1>11. Told'
  <2>1. told = NoTold BY <1>3 DEF LedgerBooks, Told
  <2> QED BY <1>1, <1>2, <1>4, <1>6, <2>1 DEF LedgerBooks, Told
<1> QED BY <1>8, <1>9, <1>10, <1>11 DEF LedgerBooks

\* A stop makes the entry anew, and closes the books of the service.
LEMMA KillBooks ==
    ASSUME Shaped, LedgerBooks, Kill PROVE LedgerBooks'
<1>1. /\ Step("kill") /\ running' = FALSE /\ alive' = FALSE /\ buffer' = buffer
      /\ counts' = Zero /\ total' = Zero /\ answered' = Zero /\ since' = Zero
      /\ lost' = Zero /\ known' = Nobody
      /\ UNCHANGED <<control, management, served, told, window>>
  BY DEF Kill, FreshEntry, Step
<1>2. /\ calls # <<>> /\ Ordered(calls) /\ calls[1].op = "kill" /\ calls' = Tail(calls)
      /\ window = FALSE /\ control.clear = FALSE
  BY <1>1, StepFacts DEF LedgerBooks, Steps
<1>3. calls' = <<>> BY <1>2, LastCalls
<1>4. (\A op : ~Soon(calls', op) /\ ~Within(calls', op)) /\ WritesFollow(calls')
  BY <1>3, NothingLeft
<1>5. WindowInv'
  <2>1. control.stop = FALSE BY DEF LedgerBooks, WindowInv
  <2> QED BY <1>1, <1>2, <1>4, <2>1 DEF WindowInv
<1>6. InService' BY <1>1, <1>2 DEF LedgerBooks, InService
<1>7. Sums'
  <2>1. Balanced(total, since)' BY <1>1, ZeroServed DEF Balanced
  <2> QED BY <1>4, <2>1 DEF Sums
<1>8. Told'
  <2>1. told = NoTold BY <1>2 DEF LedgerBooks, Told
  <2> QED BY <1>1, <1>4, <2>1 DEF Told
<1> QED BY <1>5, <1>6, <1>7, <1>8 DEF LedgerBooks

\* A command for a running service tells nothing that it has not taken.
LEMMA CommandsTake ==
    running = TRUE => \A list \in Commands : Within(list, "tell") => Within(list, "take")
<1>1. ASSUME NEW list, UpdateForm(list) PROVE Within(list, "take")
  <2>1. Len(list) \in {16, 17} /\ list[11].op = "take" BY <1>1, UpdateOps
  <2>2. 11 \in 1 .. Len(list) BY <2>1
  <2> QED BY <2>1, <2>2 DEF Within
<1>2. ASSUME NEW list, ClearOrStop(list), Ordered(list) PROVE ~Within(list, "tell")
  <2>1. Len(list) \in {12, 13} /\ list[6].op = "add" BY <1>2, ClearOps
  <2>2. 6 \in 1 .. Len(list) BY <2>1
  <2>3. \A j \in 1 .. Len(list) : list[j].op # "tell" BY <1>2, <2>1, <2>2 DEF Ordered, Ended
  <2> QED BY <2>3 DEF Within
<1> SUFFICES ASSUME running = TRUE
             PROVE  \A list \in Commands : Within(list, "tell") => Within(list, "take")
  OBVIOUS
<1>3. Commands = {UpdateCalls, UpdateCalls \o <<Do("tell")>>,
                  ClearCalls, ClearCalls \o <<Do("kill")>>}
  BY DEF Commands
<1>4. Within(UpdateCalls, "take") /\ Within(UpdateCalls \o <<Do("tell")>>, "take")
  BY <1>1, UpdateFront
<1>5. ~Within(ClearCalls, "tell") /\ ~Within(ClearCalls \o <<Do("kill")>>, "tell")
  BY <1>2, <1>3, ClearEnds, CommandsOrdered
<1> QED BY <1>3, <1>4, <1>5

LEMMA BeginBooks ==
    ASSUME Shaped, LedgerBooks, Begin PROVE LedgerBooks'
<1>1. /\ calls = <<>> /\ calls' \in Commands /\ told' = NoTold
      /\ UNCHANGED <<vars, running, counts, total, ghosts>>
  BY DEF Begin
<1>2. UNCHANGED <<control, management, served, window, since, alive, answered, lost, known>>
  BY <1>1 DEF vars, ghosts
<1>3. running \in BOOLEAN /\ window \in BOOLEAN BY DEF Shaped, LedgerTypes
<1>4. ~Soon(calls, "add") BY <1>1, NothingLeft
<1>5. ~Soon(calls', "take") /\ ~Soon(calls', "add")
  <2>1. calls' # <<>> /\ calls'[1].op \in {"open", "spawn", "tell"}
    BY <1>1, <1>3, CommandsStart
  <2> QED BY <2>1, SoonNot
<1>6. WindowInv'
  <2>1. window # TRUE
    <3> SUFFICES ASSUME window = TRUE PROVE FALSE
      OBVIOUS
    <3>1. PICK w \in 0 .. Len(calls) : OnWay(control.clear, calls, w)
      BY DEF LedgerBooks, WindowInv
    <3>2. Len(calls) = 0 BY <1>1
    <3> QED BY <3>1, <3>2 DEF OnWay
  <2>2. control.stop = FALSE /\ control.clear = FALSE
    BY <1>3, <2>1 DEF LedgerBooks, WindowInv
  <2>3. WritesFollow(calls') BY <1>1, CommandsInOrder
  <2> QED BY <1>2, <1>3, <2>1, <2>2, <2>3 DEF WindowInv
<1>7. InService' BY <1>2 DEF LedgerBooks, InService
<1>8. Sums' BY <1>1, <1>2, <1>4, <1>5 DEF LedgerBooks, Sums, Balanced
<1>9. Told'
  <2>1. running = TRUE /\ Within(calls', "tell") => Within(calls', "take")
    BY <1>1, CommandsTake
  <2>2. running = FALSE => known = Nobody /\ counts = Zero /\ total = Zero
    BY DEF LedgerBooks, Told
  <2> QED BY <1>1, <1>2, <1>5, <2>1, <2>2 DEF Told
<1> QED BY <1>6, <1>7, <1>8, <1>9 DEF LedgerBooks

-----------------------------------------------------------------------------
(* The theorems.                                                           *)

LEMMA BooksStart == LedgerInit => LedgerBooks
<1> SUFFICES ASSUME LedgerInit PROVE LedgerBooks
  OBVIOUS
<1>1. /\ Init /\ calls = StartCalls /\ running = FALSE
      /\ counts = Zero /\ total = Zero /\ told = NoTold
      /\ answered = Zero /\ since = Zero /\ lost = Zero
      /\ window = FALSE /\ known = Nobody
  BY DEF LedgerInit
<1>2. /\ control = [stop |-> FALSE, clear |-> FALSE] /\ management = Zero /\ served = 0
  BY <1>1 DEF Init
<1>3. control.stop = FALSE /\ control.clear = FALSE BY <1>2
<1>4. WritesFollow(calls) BY <1>1, CommandsInOrder
<1>5. ~Soon(calls, "take") /\ ~Soon(calls, "add") BY <1>1, CommandsStart, SoonNot
<1>6. WindowInv BY <1>1, <1>3, <1>4 DEF WindowInv
<1>7. InService BY <1>1, <1>2, ZeroServed DEF InService
<1>8. Sums
  <2>1. Balanced(total, since) BY <1>1, ZeroServed DEF Balanced
  <2> QED BY <1>5, <2>1 DEF Sums
<1>9. Told BY <1>1, <1>5 DEF Told
<1> QED BY <1>6, <1>7, <1>8, <1>9 DEF LedgerBooks

LEMMA BooksStep ==
    ASSUME FewRequests, SmallCounts, Shaped, LedgerBooks, [LedgerNext]_ledgerVars
    PROVE  LedgerBooks'
<1>1. CASE Begin BY <1>1, BeginBooks
<1>2. CASE Serve BY <1>2, ServeBooks
<1>3. CASE Ask BY <1>3, AskBooks
<1>4. CASE TimedOut BY <1>4, TimedOutBooks
<1>5. CASE Take BY <1>5, TakeBooks
<1>6. CASE AddUp BY <1>6, AddUpBooks
<1>7. CASE SetZero BY <1>7, SetZeroBooks
<1>8. CASE Tell BY <1>8, TellBooks
<1>9. CASE Run BY <1>9, RunBooks
<1>10. CASE Spawn BY <1>10, SpawnBooks
<1>11. CASE Kill BY <1>11, KillBooks
<1>12. CASE UNCHANGED ledgerVars
  <2>1. UNCHANGED <<calls, control, management, served, alive, window, since, answered, lost,
                    known, running, buffer, counts, total, told>>
    BY <1>12 DEF ledgerVars, vars, entry, ghosts
  <2>2. WindowInv' BY <2>1 DEF LedgerBooks, WindowInv
  <2>3. InService' BY <2>1 DEF LedgerBooks, InService
  <2>4. Sums' BY <2>1 DEF LedgerBooks, Sums, Balanced
  <2>5. Told' BY <2>1 DEF LedgerBooks, Told
  <2> QED BY <2>2, <2>3, <2>4, <2>5 DEF LedgerBooks
<1> QED
  BY <1>1, <1>2, <1>3, <1>4, <1>5, <1>6, <1>7, <1>8, <1>9, <1>10, <1>11, <1>12 DEF LedgerNext

LEMMA BooksAlways == FewRequests /\ SmallCounts => (LedgerSpec => []LedgerBooks)
<1> SUFFICES ASSUME FewRequests, SmallCounts PROVE LedgerSpec => []LedgerBooks
  OBVIOUS
<1>1. LedgerSpec => []Shaped BY ShapedAlways
<1>2. Shaped /\ LedgerBooks /\ [LedgerNext]_ledgerVars => LedgerBooks' BY BooksStep
<1> QED BY <1>1, <1>2, BooksStart, PTL DEF LedgerSpec

\* The counts that info() of the monitor's main.rs tells are those of the requests that
\* were answered since the last clear, start or recovery when update_service_info read
\* them: none is counted twice and none forgotten, whoever called in between and however
\* many reads and writes timed out.
THEOREM CountsToldCorrect == FewRequests /\ SmallCounts => (LedgerSpec => []CountsTold)
<1>1. LedgerBooks => CountsTold BY DEF LedgerBooks, Told, CountsTold
<1> QED BY <1>1, BooksAlways, PTL

\* The totals that info() tells are those of all requests answered since the service was
\* started, but for those that clear() and recover() are known to lose: what clear() adds
\* to the totals, and the service then forgets, is what it read.
THEOREM TotalsToldCorrect == FewRequests /\ SmallCounts => (LedgerSpec => []TotalsTold)
<1>1. LedgerBooks => TotalsTold BY DEF LedgerBooks, Told, TotalsTold
<1> QED BY <1>1, BooksAlways, PTL
=============================================================================
