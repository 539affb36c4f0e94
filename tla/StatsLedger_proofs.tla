-------------------------- MODULE StatsLedger_proofs --------------------------
(***************************************************************************)
(* What a clear loses, for any clients, requests and commands: its own     *)
(* open, dup and close, and what others send while it is on its way.       *)
(***************************************************************************)
EXTENDS StatsLedger, BaseScheme_proofs, SequenceTheorems

-----------------------------------------------------------------------------
(* The calls of a command.                                                 *)

CallOps == {"open", "dup", "read", "write", "close",
            "take", "add", "zero", "tell", "run", "spawn", "kill"}
CallType == [op: CallOps, slot: Slots \cup {NoFd}, name: MgmtNames \cup {"none"}]

\* The read at i is the one a clear adds to the totals.
TotalsRead(list, i) ==
    /\ i \in 1 .. Len(list) - 2
    /\ list[i].op = "read" /\ list[i].name = "request_count" /\ list[i + 2].op = "add"

\* From that read to the end of the write.
ClearTail ==
    <<Call("close", Sub, "none"), Do("add"), Call("open", Main, "none"), Call("dup", Sub, "control"),
      Call("close", Main, "none"), Call("write", Sub, "control"), Call("close", Sub, "none")>>

\* The list goes on with the clear from its p-th call on, and has no other write.
GoesOn(list, p) ==
    /\ 8 - p <= Len(list)
    /\ \A j \in 1 .. 8 - p : list[j] = ClearTail[p + j - 1]
    /\ \A j \in 1 .. Len(list) : list[j].op = "write" => j = 7 - p

\* The slots of each call, and what follows the read.
CallsInOrder(list) ==
    /\ list \in Seq(CallType)
    /\ \A i \in 1 .. Len(list) :
         /\ list[i].op = "open" => list[i].slot \in {Main, ChildScheme}
         /\ list[i].op = "dup" => list[i].slot \in {Sub, PidScheme}
         /\ list[i].op = "dup" => list[i].name \in MgmtNames
         /\ list[i].op \in {"read", "write", "close"} => list[i].slot \in Slots
    /\ \A i \in 1 .. Len(list) : TotalsRead(list, i) =>
         /\ i + 7 <= Len(list)
         /\ \A j \in 1 .. 7 : list[i + j] = ClearTail[j]
         /\ \A j \in 1 .. Len(list) : list[j].op = "write" => j = i + 6

\* Nothing is written before the read.
WritesFollow(list) ==
    \A j \in 1 .. Len(list) : list[j].op = "write" => j > 6 /\ TotalsRead(list, j - 6)

LEMMA TailValues ==
    ASSUME NEW list \in Seq(CallType), list # <<>>
    PROVE  /\ Tail(list) \in Seq(CallType) /\ Len(list) \in Nat \ {0}
           /\ Len(Tail(list)) = Len(list) - 1
           /\ \A i \in 1 .. Len(list) - 1 : Tail(list)[i] = list[i + 1]
           /\ Head(list) = list[1] /\ list[1] \in CallType
OBVIOUS

LEMMA TailReads ==
    ASSUME NEW list \in Seq(CallType), list # <<>>, NEW i \in Nat \ {0}
    PROVE  TotalsRead(Tail(list), i) <=> TotalsRead(list, i + 1)
<1>1. /\ Len(list) \in Nat \ {0} /\ Len(Tail(list)) = Len(list) - 1
      /\ \A j \in 1 .. Len(list) - 1 : Tail(list)[j] = list[j + 1]
  BY TailValues
<1>2. i \in 1 .. Len(Tail(list)) - 2 <=> i + 1 \in 1 .. Len(list) - 2 BY <1>1
<1>3. ASSUME i + 1 \in 1 .. Len(list) - 2
      PROVE  Tail(list)[i] = list[i + 1] /\ Tail(list)[i + 2] = list[(i + 1) + 2]
  <2>1. i \in 1 .. Len(list) - 1 /\ i + 2 \in 1 .. Len(list) - 1 /\ (i + 2) + 1 = (i + 1) + 2
    BY <1>1, <1>3
  <2> QED BY <1>1, <2>1
<1> DEFINE rest == Tail(list)
<1> HIDE DEF rest
<1>4. CASE i + 1 \in 1 .. Len(list) - 2
  <2>1. rest[i] = list[i + 1] /\ rest[i + 2] = list[(i + 1) + 2] BY <1>3, <1>4 DEF rest
  <2>2. i \in 1 .. Len(rest) - 2 BY <1>2, <1>4 DEF rest
  <2> QED BY <1>4, <2>1, <2>2 DEF TotalsRead, rest
<1>5. CASE i + 1 \notin 1 .. Len(list) - 2
  BY <1>2, <1>5 DEF TotalsRead
<1> QED BY <1>4, <1>5

\* The order is kept when the first call is made, ...
LEMMA TailInOrder ==
    ASSUME NEW list, CallsInOrder(list), list # <<>>
    PROVE  CallsInOrder(Tail(list))
<1> DEFINE rest == Tail(list)
<1>1. /\ rest \in Seq(CallType) /\ Len(list) \in Nat \ {0} /\ Len(rest) = Len(list) - 1
      /\ \A i \in 1 .. Len(list) - 1 : rest[i] = list[i + 1]
  BY TailValues DEF CallsInOrder
<1>2. \A i \in Nat \ {0} : TotalsRead(rest, i) <=> TotalsRead(list, i + 1)
  BY <1>1, TailReads DEF CallsInOrder
<1> HIDE DEF rest
<1>3. \A i \in 1 .. Len(rest) :
        /\ rest[i].op = "open" => rest[i].slot \in {Main, ChildScheme}
        /\ rest[i].op = "dup" => rest[i].slot \in {Sub, PidScheme}
        /\ rest[i].op = "dup" => rest[i].name \in MgmtNames
        /\ rest[i].op \in {"read", "write", "close"} => rest[i].slot \in Slots
  BY <1>1 DEF CallsInOrder
<1>4. ASSUME NEW i \in 1 .. Len(rest), TotalsRead(rest, i)
      PROVE  /\ i + 7 <= Len(rest)
             /\ \A j \in 1 .. 7 : rest[i + j] = ClearTail[j]
             /\ \A j \in 1 .. Len(rest) : rest[j].op = "write" => j = i + 6
  <2>0. i \in Nat \ {0} /\ i + 1 \in 1 .. Len(list) BY <1>1, <1>4
  <2>1. i \in Nat \ {0} /\ i + 1 \in 1 .. Len(list) /\ TotalsRead(list, i + 1)
    BY <1>2, <1>4, <2>0, Zenon
  <2>2. /\ (i + 1) + 7 <= Len(list)
        /\ \A j \in 1 .. 7 : list[(i + 1) + j] = ClearTail[j]
        /\ \A j \in 1 .. Len(list) : list[j].op = "write" => j = (i + 1) + 6
    BY <2>1 DEF CallsInOrder
  <2>9. i \in Nat /\ Len(list) \in Nat /\ i + 8 <= Len(list) BY <1>1, <2>1, <2>2
  <2>3. \A j \in 1 .. 7 : i + j \in 1 .. Len(list) - 1 /\ (i + j) + 1 = (i + 1) + j
    BY <2>9
  <2>5. \A j \in 1 .. 7 : rest[i + j] = list[(i + 1) + j] BY <1>1, <2>3
  <2>4. \A j \in 1 .. Len(rest) : rest[j] = list[j + 1] /\ j + 1 \in 1 .. Len(list) BY <1>1
  <2>6. i + 7 <= Len(rest) BY <1>1, <2>1, <2>2
  <2>7. \A j \in 1 .. 7 : rest[i + j] = ClearTail[j] BY <2>2, <2>5
  <2>8. \A j \in 1 .. Len(rest) : rest[j].op = "write" => j = i + 6
    <3> TAKE j \in 1 .. Len(rest)
    <3> HAVE rest[j].op = "write"
    <3>1. j + 1 \in 1 .. Len(list) /\ list[j + 1].op = "write" BY <2>4
    <3>2. j + 1 = (i + 1) + 6 BY <2>2, <3>1
    <3> QED BY <2>1, <3>2
  <2> QED BY <2>6, <2>7, <2>8
<1> QED BY <1>1, <1>3, <1>4 DEF CallsInOrder, rest

\* ... and so are the writes, unless it is the read.
LEMMA TailFollows ==
    ASSUME NEW list, CallsInOrder(list), WritesFollow(list), list # <<>>, ~TotalsRead(list, 1)
    PROVE  WritesFollow(Tail(list)) /\ Head(list).op # "write"
<1> DEFINE rest == Tail(list)
<1>1. /\ rest \in Seq(CallType) /\ Len(list) \in Nat \ {0} /\ Len(rest) = Len(list) - 1
      /\ \A i \in 1 .. Len(list) - 1 : rest[i] = list[i + 1]
      /\ Head(list) = list[1]
  BY TailValues DEF CallsInOrder
<1>2. \A i \in Nat \ {0} : TotalsRead(rest, i) <=> TotalsRead(list, i + 1)
  BY <1>1, TailReads DEF CallsInOrder
<1> HIDE DEF rest
<1>3. ASSUME NEW j \in 1 .. Len(rest), rest[j].op = "write"
      PROVE  j > 6 /\ TotalsRead(rest, j - 6)
  <2>1. j + 1 \in 1 .. Len(list) /\ list[j + 1].op = "write" BY <1>1, <1>3
  <2>2. j + 1 > 6 /\ TotalsRead(list, (j + 1) - 6) BY <2>1 DEF WritesFollow
  <2>3. (j + 1) - 6 # 1 BY <2>2
  <2>4. j - 6 \in Nat \ {0} /\ (j - 6) + 1 = (j + 1) - 6 BY <2>2, <2>3
  <2> QED BY <1>2, <2>2, <2>4
<1>4. list[1].op # "write" BY <1>1 DEF WritesFollow
<1> QED BY <1>1, <1>3, <1>4 DEF WritesFollow, rest

\* After the read the clear goes on, ...
LEMMA ReadStarts ==
    ASSUME NEW list, CallsInOrder(list), list # <<>>, TotalsRead(list, 1)
    PROVE  GoesOn(Tail(list), 1)
<1>1. /\ Len(list) \in Nat \ {0} /\ Len(Tail(list)) = Len(list) - 1
      /\ \A i \in 1 .. Len(list) - 1 : Tail(list)[i] = list[i + 1]
  BY TailValues DEF CallsInOrder
<1>2. /\ 8 <= Len(list)
      /\ \A j \in 1 .. 7 : list[1 + j] = ClearTail[j]
      /\ \A j \in 1 .. Len(list) : list[j].op = "write" => j = 7
  BY <1>1 DEF CallsInOrder
<1>3. \A j \in 1 .. 7 : Tail(list)[j] = ClearTail[j] BY <1>1, <1>2
<1>4. \A j \in 1 .. Len(Tail(list)) : Tail(list)[j].op = "write" => j = 6 BY <1>1, <1>2
<1> HIDE DEF ClearTail
<1> QED BY <1>1, <1>2, <1>3, <1>4 DEF GoesOn

\* ... call by call.
LEMMA NextGoesOn ==
    ASSUME NEW list \in Seq(CallType), NEW p \in 1 .. 6, GoesOn(list, p)
    PROVE  list # <<>> /\ Head(list) = ClearTail[p] /\ GoesOn(Tail(list), p + 1)
<1> USE DEF GoesOn
<1>0. Len(list) \in Nat /\ 2 <= Len(list) OBVIOUS
<1>1. list # <<>> BY <1>0
<1>2. /\ Len(Tail(list)) = Len(list) - 1
      /\ \A i \in 1 .. Len(list) - 1 : Tail(list)[i] = list[i + 1]
      /\ Head(list) = list[1]
  BY <1>1, TailValues
<1>3. \A j \in 1 .. 8 - (p + 1) : Tail(list)[j] = ClearTail[(p + 1) + j - 1]
  BY <1>0, <1>2
<1>4. \A j \in 1 .. Len(Tail(list)) : Tail(list)[j].op = "write" => j = 7 - (p + 1)
  BY <1>0, <1>2
<1> QED BY <1>0, <1>1, <1>2, <1>3, <1>4

LEMMA LastGoesOn ==
    ASSUME NEW list \in Seq(CallType), GoesOn(list, 7)
    PROVE  /\ list # <<>> /\ Head(list) = ClearTail[7]
           /\ WritesFollow(list) /\ WritesFollow(Tail(list))
<1> USE DEF GoesOn
<1>0. Len(list) \in Nat /\ 1 <= Len(list) OBVIOUS
<1>1. list # <<>> BY <1>0
<1>2. /\ Len(Tail(list)) = Len(list) - 1
      /\ \A i \in 1 .. Len(list) - 1 : Tail(list)[i] = list[i + 1]
      /\ Head(list) = list[1]
  BY <1>1, TailValues
<1>3. \A j \in 1 .. Len(list) : list[j].op # "write" BY <1>0
<1> QED BY <1>0, <1>1, <1>2, <1>3 DEF WritesFollow

\* The lists that commands are made of, call by call.
LEMMA CallTypes ==
    ASSUME NEW op \in CallOps, NEW slot \in Slots \cup {NoFd}, NEW name \in MgmtNames \cup {"none"}
    PROVE  /\ Call(op, slot, name) \in CallType
           /\ Call(op, slot, name).op = op /\ Call(op, slot, name).slot = slot
           /\ Call(op, slot, name).name = name
BY DEF Call, CallType

LEMMA FiveValues ==
    ASSUME NEW S, NEW a \in S, NEW b \in S, NEW c \in S, NEW d \in S, NEW e \in S
    PROVE  /\ <<a, b, c, d, e>> \in Seq(S) /\ Len(<<a, b, c, d, e>>) = 5
           /\ <<a, b, c, d, e>>[1] = a /\ <<a, b, c, d, e>>[2] = b /\ <<a, b, c, d, e>>[3] = c
           /\ <<a, b, c, d, e>>[4] = d /\ <<a, b, c, d, e>>[5] = e
OBVIOUS

LEMMA HelperValues ==
    ASSUME NEW op \in {"read", "write"}, NEW name \in MgmtNames
    PROVE  /\ Helper(op, name) \in Seq(CallType) /\ Len(Helper(op, name)) = 5
           /\ Helper(op, name)[1] = Call("open", Main, "none")
           /\ Helper(op, name)[2] = Call("dup", Sub, name)
           /\ Helper(op, name)[3] = Call("close", Main, "none")
           /\ Helper(op, name)[4] = Call(op, Sub, name)
           /\ Helper(op, name)[5] = Call("close", Sub, "none")
<1>1. op \in CallOps /\ Main \in Slots /\ Sub \in Slots
  BY LedgerAssumption DEF CallOps, Kept
<1>2. /\ Call("open", Main, "none") \in CallType /\ Call("dup", Sub, name) \in CallType
      /\ Call("close", Main, "none") \in CallType /\ Call(op, Sub, name) \in CallType
      /\ Call("close", Sub, "none") \in CallType
  BY <1>1, CallTypes DEF CallOps
<1> QED BY <1>2, FiveValues DEF Helper

LEMMA Concatenated ==
    ASSUME NEW s \in Seq(CallType), NEW t \in Seq(CallType)
    PROVE  /\ s \o t \in Seq(CallType) /\ Len(s) \in Nat /\ Len(t) \in Nat
           /\ Len(s \o t) = Len(s) + Len(t)
           /\ \A i \in 1 .. Len(s) + Len(t) :
                (s \o t)[i] = IF i <= Len(s) THEN s[i] ELSE t[i - Len(s)]
BY ConcatProperties

LEMMA OneStep ==
    ASSUME NEW op \in CallOps
    PROVE  /\ <<Do(op)>> \in Seq(CallType) /\ Len(<<Do(op)>>) = 1
           /\ <<Do(op)>>[1] = Do(op) /\ Do(op).op = op
BY DEF Do, Call, CallType

\* Lists without a write and without a step that adds the counts to the totals.
Plain(list) ==
    /\ list \in Seq(CallType)
    /\ \A i \in 1 .. Len(list) :
         /\ list[i].op \notin {"write", "add"}
         /\ list[i].op = "open" => list[i].slot \in {Main, ChildScheme}
         /\ list[i].op = "dup" => list[i].slot \in {Sub, PidScheme}
         /\ list[i].op = "dup" => list[i].name \in MgmtNames
         /\ list[i].op \in {"read", "write", "close"} => list[i].slot \in Slots

LEMMA PlainInOrder ==
    ASSUME NEW list, Plain(list) PROVE CallsInOrder(list) /\ WritesFollow(list)
<1>1. \A i \in 1 .. Len(list) : ~TotalsRead(list, i)
  <2> TAKE i \in 1 .. Len(list)
  <2>1. i \in 1 .. Len(list) - 2 => i + 2 \in 1 .. Len(list) BY DEF Plain
  <2> QED BY <2>1 DEF Plain, TotalsRead
<1> QED BY <1>1 DEF Plain, CallsInOrder, WritesFollow

LEMMA PlainTogether ==
    ASSUME NEW s, NEW t, Plain(s), Plain(t) PROVE Plain(s \o t)
<1>1. s \in Seq(CallType) /\ t \in Seq(CallType) BY DEF Plain
<1>2. /\ s \o t \in Seq(CallType) /\ Len(s) \in Nat /\ Len(t) \in Nat
      /\ Len(s \o t) = Len(s) + Len(t)
      /\ \A i \in 1 .. Len(s) + Len(t) :
           (s \o t)[i] = IF i <= Len(s) THEN s[i] ELSE t[i - Len(s)]
  BY <1>1, Concatenated
<1>3. ASSUME NEW i \in 1 .. Len(s \o t)
      PROVE  \/ \E j \in 1 .. Len(s) : (s \o t)[i] = s[j]
             \/ \E j \in 1 .. Len(t) : (s \o t)[i] = t[j]
  <2>1. CASE i <= Len(s) BY <1>2, <2>1
  <2>2. CASE ~(i <= Len(s))
    <3>1. i - Len(s) \in 1 .. Len(t) BY <1>2, <2>2
    <3> QED BY <1>2, <2>2, <3>1
  <2> QED BY <2>1, <2>2
<1> DEFINE u == s \o t
<1>4. u \in Seq(CallType) BY <1>2
<1>5. \A i \in 1 .. Len(u) : \/ \E j \in 1 .. Len(s) : u[i] = s[j]
                             \/ \E j \in 1 .. Len(t) : u[i] = t[j]
  BY <1>3
<1> HIDE DEF u
<1>6. Plain(u) BY <1>4, <1>5 DEF Plain
<1> QED BY <1>6 DEF u

LEMMA PlainParts ==
    /\ \A name \in MgmtNames : Plain(Helper("read", name))
    /\ \A op \in {"take", "tell", "spawn", "run"} : Plain(<<Do(op)>>)
    /\ Plain(StartCalls)
<1>1. ASSUME NEW name \in MgmtNames PROVE Plain(Helper("read", name))
  <2> DEFINE h == Helper("read", name)
  <2>1. /\ h \in Seq(CallType) /\ Len(h) = 5
        /\ h[1] = Call("open", Main, "none") /\ h[2] = Call("dup", Sub, name)
        /\ h[3] = Call("close", Main, "none") /\ h[4] = Call("read", Sub, name)
        /\ h[5] = Call("close", Sub, "none")
    BY HelperValues
  <2> HIDE DEF h
  <2>2. 1 .. Len(h) = {1, 2, 3, 4, 5} BY <2>1
  <2>3. Plain(h) BY <2>1, <2>2, LedgerAssumption DEF Plain, Call, Kept
  <2> QED BY <2>3 DEF h
<1>2. ASSUME NEW op \in {"take", "tell", "spawn", "run"} PROVE Plain(<<Do(op)>>)
  <2>1. /\ <<Do(op)>> \in Seq(CallType) /\ Len(<<Do(op)>>) = 1
        /\ <<Do(op)>>[1] = Do(op) /\ Do(op).op = op
    BY OneStep DEF CallOps
  <2> DEFINE h == <<Do(op)>>
  <2>2. h \in Seq(CallType) /\ Len(h) = 1 /\ h[1].op = op BY <2>1
  <2> HIDE DEF h
  <2>3. Plain(h) BY <2>2 DEF Plain
  <2> QED BY <2>3 DEF h
<1>3. Plain(StartCalls)
  <2> DEFINE a == Call("open", ChildScheme, "none")
             b == Call("dup", PidScheme, "pid")
             c == Call("read", PidScheme, "pid")
             d == Do("run")
  <2>1. {a, b, c, d} \subseteq CallType
    BY LedgerAssumption DEF Kept, Do, CallType, CallOps, MgmtNames, Call
  <2>2. /\ a.op = "open" /\ a.slot = ChildScheme /\ b.op = "dup" /\ b.slot = PidScheme
        /\ b.name = "pid" /\ c.op = "read" /\ c.slot = PidScheme /\ d.op = "run"
    BY DEF Call, Do
  <2> DEFINE list == <<a, b, c, d>>
  <2> HIDE DEF a, b, c, d
  <2>3. /\ list \in Seq(CallType) /\ Len(list) = 4
        /\ list[1] = a /\ list[2] = b /\ list[3] = c /\ list[4] = d
    BY <2>1
  <2> HIDE DEF list
  <2>4. 1 .. Len(list) = {1, 2, 3, 4} BY <2>3
  <2>5. Plain(list) BY <2>2, <2>3, <2>4, LedgerAssumption DEF Plain, MgmtNames, Kept
  <2> QED BY <2>5 DEF list, a, b, c, d, StartCalls
<1> QED BY <1>1, <1>2, <1>3

\* The lists of a clear, and of a stop.
ClearForm(list) ==
    /\ list \in Seq(CallType) /\ Len(list) >= 11
    /\ list[1] = Call("open", Main, "none") /\ list[2] = Call("dup", Sub, "request_count")
    /\ list[3] = Call("close", Main, "none") /\ list[4] = Call("read", Sub, "request_count")
    /\ list[5] = Call("close", Sub, "none") /\ list[6] = Do("add")
    /\ list[7] = Call("open", Main, "none") /\ list[8] = Call("dup", Sub, "control")
    /\ list[9] = Call("close", Main, "none") /\ list[10] = Call("write", Sub, "control")
    /\ list[11] = Call("close", Sub, "none")
    /\ \A i \in 12 .. Len(list) : list[i].op \in {"zero", "kill"}

LEMMA ClearFront ==
    ClearForm((Helper("read", "request_count") \o <<Do("add")>>) \o Helper("write", "control"))
<1> DEFINE r == Helper("read", "request_count")
           a == <<Do("add")>>
           w == Helper("write", "control")
<1>1. /\ r \in Seq(CallType) /\ Len(r) = 5
      /\ r[1] = Call("open", Main, "none") /\ r[2] = Call("dup", Sub, "request_count")
      /\ r[3] = Call("close", Main, "none") /\ r[4] = Call("read", Sub, "request_count")
      /\ r[5] = Call("close", Sub, "none")
  BY HelperValues DEF MgmtNames
<1>2. /\ w \in Seq(CallType) /\ Len(w) = 5
      /\ w[1] = Call("open", Main, "none") /\ w[2] = Call("dup", Sub, "control")
      /\ w[3] = Call("close", Main, "none") /\ w[4] = Call("write", Sub, "control")
      /\ w[5] = Call("close", Sub, "none")
  BY HelperValues DEF MgmtNames
<1>3. a \in Seq(CallType) /\ Len(a) = 1 /\ a[1] = Do("add") BY OneStep DEF CallOps
<1> HIDE DEF r, a, w
<1> DEFINE m == r \o a
<1>4. /\ m \in Seq(CallType) /\ Len(m) = 6
      /\ \A i \in 1 .. 6 : m[i] = IF i <= 5 THEN r[i] ELSE a[i - 5]
  <2>1. /\ m \in Seq(CallType) /\ Len(m) = Len(r) + Len(a)
        /\ \A i \in 1 .. Len(r) + Len(a) : m[i] = IF i <= Len(r) THEN r[i] ELSE a[i - Len(r)]
    BY <1>1, <1>3, Concatenated
  <2> HIDE DEF m
  <2> QED BY <1>1, <1>3, <2>1
<1> HIDE DEF m
<1> DEFINE l == m \o w
<1>5. /\ l \in Seq(CallType) /\ Len(l) = 11
      /\ \A i \in 1 .. 11 : l[i] = IF i <= 6 THEN m[i] ELSE w[i - 6]
  <2>1. /\ l \in Seq(CallType) /\ Len(l) = Len(m) + Len(w)
        /\ \A i \in 1 .. Len(m) + Len(w) : l[i] = IF i <= Len(m) THEN m[i] ELSE w[i - Len(m)]
    BY <1>2, <1>4, Concatenated
  <2> HIDE DEF l
  <2> QED BY <1>2, <1>4, <2>1
<1> HIDE DEF l
<1>6. /\ l[1] = r[1] /\ l[2] = r[2] /\ l[3] = r[3] /\ l[4] = r[4] /\ l[5] = r[5] /\ l[6] = a[1]
      /\ l[7] = w[1] /\ l[8] = w[2] /\ l[9] = w[3] /\ l[10] = w[4] /\ l[11] = w[5]
  BY <1>4, <1>5
<1>7. ClearForm(l) BY <1>1, <1>2, <1>3, <1>5, <1>6 DEF ClearForm
<1> QED BY <1>7 DEF l, m, r, a, w

LEMMA ClearLonger ==
    ASSUME NEW list, ClearForm(list), NEW op \in {"zero", "kill"}
    PROVE  ClearForm(list \o <<Do(op)>>)
<1> DEFINE t == <<Do(op)>>
           u == list \o t
<1>1. t \in Seq(CallType) /\ Len(t) = 1 /\ t[1].op = op BY OneStep DEF CallOps
<1> HIDE DEF t
<1>2. /\ u \in Seq(CallType) /\ Len(list) \in Nat /\ Len(u) = Len(list) + 1
      /\ \A i \in 1 .. Len(list) + 1 : u[i] = IF i <= Len(list) THEN list[i] ELSE t[i - Len(list)]
  BY ZenonT(40), <1>1, Concatenated DEF ClearForm
<1> HIDE DEF u
<1>3. Len(list) >= 11 BY DEF ClearForm
<1>4. \A i \in 1 .. 11 : u[i] = list[i] BY <1>2, <1>3
<1>5. ASSUME NEW i \in 12 .. Len(u) PROVE u[i].op \in {"zero", "kill"}
  <2>1. CASE i <= Len(list)
    <3>1. u[i] = list[i] /\ i \in 12 .. Len(list) BY <1>2, <2>1
    <3> QED BY <3>1 DEF ClearForm
  <2>2. CASE ~(i <= Len(list))
    <3>1. i - Len(list) = 1 BY <1>2, <2>2
    <3>2. u[i] = t[1] BY <1>2, <1>3, <2>2, <3>1
    <3> QED BY <1>1, <3>2
  <2> QED BY <2>1, <2>2
<1>6. ClearForm(u) BY SMTT(30), <1>2, <1>3, <1>4, <1>5 DEF ClearForm
<1> QED BY <1>6 DEF u, t

LEMMA ClearTailValues ==
    /\ ClearTail[1] = Call("close", Sub, "none") /\ ClearTail[2] = Do("add")
    /\ ClearTail[3] = Call("open", Main, "none") /\ ClearTail[4] = Call("dup", Sub, "control")
    /\ ClearTail[5] = Call("close", Main, "none") /\ ClearTail[6] = Call("write", Sub, "control")
    /\ ClearTail[7] = Call("close", Sub, "none")
BY DEF ClearTail

LEMMA ClearInOrder ==
    ASSUME NEW list, ClearForm(list) PROVE CallsInOrder(list) /\ WritesFollow(list)
<1>1. /\ list \in Seq(CallType) /\ Len(list) \in Nat /\ Len(list) >= 11
  BY DEF ClearForm
<1>2. \A i \in 1 .. Len(list) :
        /\ list[i].op = "open" => list[i].slot = Main
        /\ list[i].op = "dup" => list[i].slot = Sub /\ list[i].name \in MgmtNames
        /\ list[i].op \in {"read", "write", "close"} => list[i].slot \in {Main, Sub}
        /\ list[i].op = "read" => i = 4
        /\ list[i].op = "write" => i = 10
  <2> TAKE i \in 1 .. Len(list)
  <2>1. i \in {1, 2, 3, 4, 5, 6, 7, 8, 9, 10, 11} \/ i \in 12 .. Len(list) BY <1>1
  <2>2. CASE i \in 12 .. Len(list) BY <2>2 DEF ClearForm
  <2>3. CASE i \in {1, 2, 3, 4, 5, 6, 7, 8, 9, 10, 11}
    BY SMTT(30), <2>3 DEF ClearForm, Call, Do, MgmtNames
  <2> QED BY <2>1, <2>2, <2>3
<1>3. TotalsRead(list, 4) BY <1>1 DEF TotalsRead, ClearForm, Call, Do
<1>4. \A j \in 1 .. 7 : list[4 + j] = ClearTail[j]
  BY ClearTailValues DEF ClearForm
<1>5. \A i \in 1 .. Len(list) : TotalsRead(list, i) => i = 4
  BY <1>2 DEF TotalsRead
<1>6. CallsInOrder(list)
  BY SMTT(30), <1>1, <1>2, <1>4, <1>5, LedgerAssumption DEF CallsInOrder, Kept
<1>7. WritesFollow(list) BY <1>2, <1>3 DEF WritesFollow
<1> QED BY <1>6, <1>7

\* So every command keeps the order.
LEMMA CommandsInOrder ==
    /\ CallsInOrder(StartCalls) /\ WritesFollow(StartCalls)
    /\ \A list \in Commands : CallsInOrder(list) /\ WritesFollow(list)
<1>0. {"message", "request_count", "time_stamp"} \subseteq MgmtNames BY DEF MgmtNames
<1>1. Plain(UpdateCalls)
  BY <1>0, PlainParts, PlainTogether DEF UpdateCalls
<1>2. Plain(UpdateCalls \o <<Do("tell")>>) BY <1>1, PlainParts, PlainTogether
<1>3. Plain(<<Do("tell")>>) /\ Plain(StartCalls) BY PlainParts
<1>4. Plain(<<Do("spawn")>> \o StartCalls) BY PlainParts, PlainTogether
<1>5. ClearForm(ClearCalls) BY ClearFront, ClearLonger DEF ClearCalls
<1>6. ClearForm(ClearCalls \o <<Do("kill")>>) BY <1>5, ClearLonger
<1> QED
  BY <1>1, <1>2, <1>3, <1>4, <1>5, <1>6, PlainInOrder, ClearInOrder DEF Commands

-----------------------------------------------------------------------------
(* The requests.                                                           *)

\* Which scheme a descriptor leads to.
SlotsInv ==
    /\ \A s \in Slots \ {Sub, PidScheme} : fds[s] # NoFd => fds[s].sub = "main"
    /\ \A s \in {Sub, PidScheme} : fds[s] # NoFd => fds[s].sub \in MgmtNames

\* What a request adds to each counter: reply is its answer.
Gain(answer, k) ==
    IF answer.sub # "main" \/ (answer.op = "dup" /\ ~answer.ok) THEN 0
    ELSE IF k = (IF answer.ok THEN CountedAs[answer.op] ELSE "errors") THEN 1 ELSE 0

Requests == {"open", "dup", "read", "write", "close"}
IsAnswer(answer) == answer.op \in Requests /\ answer.ok \in BOOLEAN

LEMMA CountedKinds ==
    /\ CountedAs["open"] = "opens" /\ CountedAs["dup"] = "dups" /\ CountedAs["read"] = "reads"
    /\ CountedAs["write"] = "writes" /\ CountedAs["close"] = "closes"
BY DEF CountedAs

LEMMA GainedValues ==
    ASSUME NEW c \in Counts, IsAnswer(reply')
    PROVE  /\ Gained(c) \in Counts
           /\ \A k \in Kinds : Gained(c)[k] = c[k] + Gain(reply', k) /\ Gain(reply', k) \in {0, 1}
<1> DEFINE answer == reply'
           kind == IF answer.ok THEN CountedAs[answer.op] ELSE "errors"
<1>1. kind \in Kinds
  BY CountedKinds DEF IsAnswer, Requests, Kinds
<1>2. \A k \in Kinds : c[k] \in Nat BY DEF Counts
<1>3. /\ Plus(c, kind) \in Counts
      /\ \A k \in Kinds : Plus(c, kind)[k] = IF k = kind THEN c[k] + 1 ELSE c[k]
  <2> HIDE DEF kind
  <2> QED BY <1>1, PlusValues
<1>4. CASE answer.sub # "main" \/ (answer.op = "dup" /\ ~answer.ok)
  <2>1. Gained(c) = c BY <1>4 DEF Gained
  <2>2. \A k \in Kinds : Gain(answer, k) = 0 BY <1>4 DEF Gain
  <2> QED BY <1>2, <2>1, <2>2
<1>5. CASE ~(answer.sub # "main" \/ (answer.op = "dup" /\ ~answer.ok))
  <2>1. Gained(c) = Plus(c, kind) BY <1>5 DEF Gained
  <2>2. \A k \in Kinds : Gain(answer, k) = IF k = kind THEN 1 ELSE 0 BY <1>5 DEF Gain
  <2> HIDE DEF kind, answer
  <2>3. \A k \in Kinds : Gained(c)[k] = c[k] + Gain(answer, k) /\ Gain(answer, k) \in {0, 1}
    BY <1>2, <1>3, <2>1, <2>2
  <2> QED BY <1>3, <2>1, <2>3 DEF answer
<1> QED BY <1>4, <1>5

LEMMA Flags ==
    ASSUME NEW stop, NEW clear PROVE [stop |-> stop, clear |-> clear].clear = clear
OBVIOUS

LEMMA AnswerValues ==
    ASSUME NEW op \in Requests, NEW sub, NEW ok \in BOOLEAN, NEW number,
           NEW answer, answer = [op |-> op, sub |-> sub, ok |-> ok, counts |-> number]
    PROVE  IsAnswer(answer) /\ answer.op = op /\ answer.sub = sub /\ answer.ok = ok
BY DEF IsAnswer

LEMMA UpdateEffect == ASSUME Update PROVE control'.clear = FALSE
<1>1. control' = [stop |-> control.stop, clear |-> FALSE] BY DEF Update
<1> QED BY <1>1, Flags

FdsType == fds \in [Slots -> [id: Ids, sub: Subs] \cup {NoFd}]

LEMMA OpenEffect ==
    ASSUME NEW s \in Slots, Open(s), FdsType
    PROVE  /\ control' = control /\ IsAnswer(reply')
           /\ reply'.op = "open" /\ reply'.sub = "main"
           /\ fds'[s] # NoFd => reply'.ok = TRUE
           /\ \A t \in Slots : fds'[t] = fds[t] \/ (t = s /\ fds'[t].sub = "main")
<1>1. fds[s] = NoFd /\ control' = control BY DEF Open
<1>2. \/ /\ fds' = fds
         /\ reply' = [op |-> "open", sub |-> "main", ok |-> FALSE, counts |-> NoCounts]
      \/ /\ fds' = [fds EXCEPT ![s] = [id |-> next_fd, sub |-> "main"]]
         /\ reply' = [op |-> "open", sub |-> "main", ok |-> TRUE, counts |-> NoCounts]
  BY DEF Open, OpenCounts, Answer
<1>3. "open" \in Requests BY DEF Requests
<1>4. CASE /\ fds' = fds
           /\ reply' = [op |-> "open", sub |-> "main", ok |-> FALSE, counts |-> NoCounts]
  BY <1>1, <1>3, <1>4 DEF IsAnswer
<1>5. CASE /\ fds' = [fds EXCEPT ![s] = [id |-> next_fd, sub |-> "main"]]
           /\ reply' = [op |-> "open", sub |-> "main", ok |-> TRUE, counts |-> NoCounts]
  <2>1. IsAnswer(reply') /\ reply'.op = "open" /\ reply'.sub = "main" /\ reply'.ok = TRUE
    BY <1>3, <1>5 DEF IsAnswer
  <2>2. \A t \in Slots : fds'[t] = fds[t] \/ (t = s /\ fds'[t].sub = "main")
    BY <1>5 DEF FdsType
  <2> QED BY <1>1, <2>1, <2>2
<1> QED BY <1>2, <1>4, <1>5

LEMMA ReadEffect ==
    ASSUME NEW s, Read(s)
    PROVE  /\ control'.clear = FALSE /\ IsAnswer(reply')
           /\ reply'.op = "read" /\ reply'.sub = fds[s].sub /\ fds' = fds
BY DEF Read, Update, IsAnswer, Requests

LEMMA WriteEffect ==
    ASSUME NEW s, Write(s)
    PROVE  /\ control'.clear \in BOOLEAN /\ IsAnswer(reply')
           /\ handlers[fds[s].id] = "main" => control'.clear = FALSE
           /\ reply'.op = "write" /\ reply'.sub = fds[s].sub /\ fds' = fds
<1> DEFINE sub == handlers[fds[s].id]
           ok == /\ sub \notin {NoSub, "pid", "time_stamp"}
                 /\ sub = "main" => CanPerform(files, fds[s].id, "write")
<1>1. fds' = fds BY DEF Write
<1>2. reply' = [op |-> "write", sub |-> fds[s].sub, ok |-> ok, counts |-> NoCounts]
  BY DEF Write
<1>3. PICK text \in Texts : WriteMgmt(sub, text) BY DEF Write
<1> DEFINE clearing == sub = "control" /\ text = "clear"
           stopping == control.stop \/ (sub = "control" /\ text = "stop")
<1>4. control' = [stop |-> stopping, clear |-> clearing] BY <1>3 DEF WriteMgmt
<1>5. clearing \in BOOLEAN /\ (sub = "main" => clearing = FALSE) OBVIOUS
<1>6. ok \in BOOLEAN OBVIOUS
<1>7. "write" \in Requests BY DEF Requests
<1> HIDE DEF ok, clearing, stopping
<1>8. IsAnswer(reply') /\ reply'.op = "write" /\ reply'.sub = fds[s].sub
  BY <1>2, <1>6, <1>7, AnswerValues
<1>9. control'.clear = clearing BY <1>4, Flags
<1> QED BY <1>1, <1>5, <1>8, <1>9

LEMMA CloseEffect ==
    ASSUME NEW s \in Slots, Close(s), Tables
    PROVE  /\ control'.clear = FALSE /\ IsAnswer(reply')
           /\ reply'.op = "close" /\ reply'.sub = fds[s].sub
           /\ fds[s].sub = "main" => reply'.ok = TRUE
           /\ \A t \in Slots : fds'[t] = fds[t] \/ fds'[t] = NoFd
<1> DEFINE sub == handlers[fds[s].id]
           ok == sub = "control" \/ (sub = "main" /\ CloseOk(files, fds[s].id))
<1>1. /\ fds[s] # NoFd /\ fds[s] \in [id: Ids, sub: Subs]
      /\ sub = fds[s].sub
  BY DEF Close, Tables, TablesType, TablesAgree
<1>2. sub # NoSub BY <1>1, NoBaseValueAssumption
<1>3. sub = "main" => ok = TRUE
  BY <1>1, <1>2 DEF Tables, TablesAgree, CloseOk
<1>4. control'.clear = FALSE
  <2>1. IF sub = NoSub
        THEN UNCHANGED <<files, management, requests, control, message>>
        ELSE /\ files' = IF sub = "main" THEN Closed(files, fds[s].id) ELSE files
             /\ management' = Counted(Updated[1], sub, "closes", ok)
             /\ requests' = Updated[2]
             /\ Update
    BY DEF Close
  <2> HIDE DEF sub, ok
  <2>2. Update BY <1>2, <2>1
  <2> QED BY <2>2, UpdateEffect
<1>5. reply' = [op |-> "close", sub |-> fds[s].sub, ok |-> ok, counts |-> NoCounts]
  BY DEF Close, Answer
<1>6. \A t \in Slots : fds'[t] = fds[t] \/ fds'[t] = NoFd
  BY DEF Close, Tables, TablesType
<1>7. "close" \in Requests /\ ok \in BOOLEAN BY DEF Requests
<1> HIDE DEF sub, ok
<1>8. IsAnswer(reply') /\ reply'.op = "close" /\ reply'.sub = fds[s].sub /\ reply'.ok = ok
  BY <1>5, <1>7, AnswerValues
<1> QED BY <1>1, <1>3, <1>4, <1>6, <1>8

LEMMA DupFailsEffect ==
    ASSUME NEW s, DupFails(s), control.clear \in BOOLEAN
    PROVE  /\ control'.clear \in {control.clear, FALSE} /\ IsAnswer(reply')
           /\ reply'.op = "dup" /\ reply'.ok = FALSE /\ fds' = fds
<1>1. control' = control \/ Update BY DEF DupFails
<1>2. control'.clear = control.clear \/ control'.clear = FALSE BY <1>1, UpdateEffect
<1>3. fds' = fds /\ reply' = [op |-> "dup", sub |-> fds[s].sub, ok |-> FALSE, counts |-> NoCounts]
  BY DEF DupFails
<1>4. "dup" \in Requests BY DEF Requests
<1> QED BY <1>2, <1>3, <1>4 DEF IsAnswer

LEMMA DupEffect ==
    ASSUME NEW s, NEW t \in Slots, DupMgmt(s, t), FdsType
    PROVE  /\ control'.clear = FALSE /\ IsAnswer(reply')
           /\ fds[s] # NoFd
           /\ reply'.op = "dup" /\ reply'.ok = TRUE /\ reply'.sub = fds[s].sub
           /\ \A u \in Slots : fds'[u] = fds[u] \/ (u = t /\ fds'[u].sub \in MgmtNames)
<1>1. fds[s] # NoFd /\ Update BY DEF DupMgmt
<1>2. reply' = [op |-> "dup", sub |-> fds[s].sub, ok |-> TRUE, counts |-> NoCounts]
  BY DEF DupMgmt, Answer
<1>3. PICK name \in MgmtNames : fds' = [fds EXCEPT ![t] = [id |-> next_mgmt_id, sub |-> name]]
  BY DEF DupMgmt
<1>4. \A u \in Slots : fds'[u] = fds[u] \/ (u = t /\ fds'[u].sub \in MgmtNames)
  BY <1>3 DEF FdsType
<1>5. "dup" \in Requests BY DEF Requests
<1>6. IsAnswer(reply') /\ reply'.op = "dup" /\ reply'.ok = TRUE /\ reply'.sub = fds[s].sub
  BY <1>2, <1>5 DEF IsAnswer
<1> QED BY <1>1, <1>4, <1>6, UpdateEffect

\* The requests the monitor makes.
CallShape(call) ==
    /\ call.op = "open" => call.slot \in {Main, ChildScheme}
    /\ call.op = "dup" => call.slot \in {Sub, PidScheme}
    /\ call.op \in {"read", "write", "close"} => call.slot \in Slots

LEMMA SlotsOfMonitor ==
    /\ {Main, Sub, ChildScheme, PidScheme} \subseteq Slots
    /\ Main \notin {Sub, PidScheme} /\ ChildScheme \notin {Sub, PidScheme}
    /\ "main" \notin MgmtNames
BY LedgerAssumption DEF Kept, MgmtNames

LEMMA RequestedEffect ==
    ASSUME Tables, SlotsInv, control.clear \in BOOLEAN, NEW call, CallShape(call), Requested(call)
    PROVE  /\ IsAnswer(reply') /\ SlotsInv' /\ control'.clear \in BOOLEAN
           /\ call.op \in {"dup", "read", "close"} => control'.clear = FALSE
           /\ call.op = "open" => control' = control
           /\ call.op = "write" => control'.clear = TRUE
           /\ reply'.op = call.op
           /\ call.op \in {"open", "dup"} => reply'.sub = "main" /\ reply'.ok = TRUE
           /\ call.op = "close" /\ call.slot = Main => reply'.sub = "main" /\ reply'.ok = TRUE
           /\ call.op \in {"write", "close"} /\ call.slot = Sub => reply'.sub # "main"
<1>0. FdsType BY DEF FdsType, Tables, TablesType
<1> USE SlotsOfMonitor
<1>1. CASE call.op = "open" /\ Open(call.slot) /\ fds'[call.slot] # NoFd
  <2>1. call.slot \in {Main, ChildScheme} BY <1>1 DEF CallShape
  <2>2. /\ control' = control /\ IsAnswer(reply')
        /\ reply'.op = "open" /\ reply'.sub = "main" /\ reply'.ok = TRUE
        /\ \A t \in Slots : fds'[t] = fds[t] \/ (t = call.slot /\ fds'[t].sub = "main")
    BY <1>0, <1>1, <2>1, OpenEffect
  <2>3. SlotsInv' BY <2>1, <2>2 DEF SlotsInv
  <2> QED BY <1>1, <2>1, <2>2, <2>3
<1>2. CASE /\ call.op = "dup"
           /\ DupMgmt(IF call.slot = Sub THEN Main ELSE ChildScheme, call.slot)
  <2>1. call.slot \in {Sub, PidScheme} BY <1>2 DEF CallShape
  <2> DEFINE s == IF call.slot = Sub THEN Main ELSE ChildScheme
  <2>2. s \in Slots \ {Sub, PidScheme} OBVIOUS
  <2> HIDE DEF s
  <2>3. DupMgmt(s, call.slot) BY <1>2 DEF s
  <2>4. /\ control'.clear = FALSE /\ IsAnswer(reply')
        /\ fds[s] # NoFd
        /\ reply'.op = "dup" /\ reply'.ok = TRUE /\ reply'.sub = fds[s].sub
        /\ \A u \in Slots : fds'[u] = fds[u] \/ (u = call.slot /\ fds'[u].sub \in MgmtNames)
    BY <1>0, <2>1, <2>3, DupEffect
  <2>5. fds[s].sub = "main" BY <2>2, <2>4 DEF SlotsInv
  <2>6. SlotsInv' BY <2>1, <2>4 DEF SlotsInv
  <2> QED BY <1>2, <2>1, <2>4, <2>5, <2>6
<1>3. CASE call.op = "read" /\ Read(call.slot)
  <2>1. /\ control'.clear = FALSE /\ IsAnswer(reply') /\ reply'.op = "read" /\ fds' = fds
    BY <1>3, ReadEffect
  <2> QED BY <1>3, <2>1 DEF SlotsInv
<1>4. CASE call.op = "write" /\ Write(call.slot) /\ control'.clear
  <2>1. /\ control'.clear \in BOOLEAN /\ IsAnswer(reply')
        /\ reply'.op = "write" /\ reply'.sub = fds[call.slot].sub /\ fds' = fds
    BY <1>4, WriteEffect
  <2>2. fds[call.slot] # NoFd BY <1>4 DEF Write
  <2>3. call.slot = Sub => reply'.sub \in MgmtNames BY <2>1, <2>2 DEF SlotsInv
  <2>4. control'.clear = TRUE BY <1>4, <2>1
  <2>5. SlotsInv' BY <2>1 DEF SlotsInv
  <2> QED BY <1>4, <2>1, <2>3, <2>4, <2>5
<1>5. CASE call.op = "close" /\ Close(call.slot)
  <2>1. call.slot \in Slots BY <1>5 DEF CallShape
  <2>2. /\ control'.clear = FALSE /\ IsAnswer(reply')
        /\ reply'.op = "close" /\ reply'.sub = fds[call.slot].sub
        /\ fds[call.slot].sub = "main" => reply'.ok = TRUE
        /\ \A t \in Slots : fds'[t] = fds[t] \/ fds'[t] = NoFd
    BY <1>5, <2>1, CloseEffect
  <2>3. fds[call.slot] # NoFd BY <1>5 DEF Close
  <2>4. call.slot = Main => fds[call.slot].sub = "main" BY <2>1, <2>3 DEF SlotsInv
  <2>5. call.slot = Sub => reply'.sub \in MgmtNames BY <2>1, <2>2, <2>3 DEF SlotsInv
  <2>6. SlotsInv' BY <2>2 DEF SlotsInv
  <2> QED BY <1>5, <2>2, <2>4, <2>5, <2>6
<1> QED BY <1>1, <1>2, <1>3, <1>4, <1>5 DEF Requested

\* Those that other clients make.
LEMMA AskedEffect ==
    ASSUME Tables, SlotsInv, control.clear \in BOOLEAN, NEW s \in Clients,
           Open(s) \/ DupFails(s) \/ Read(s) \/ Write(s) \/ Close(s)
    PROVE  /\ IsAnswer(reply') /\ SlotsInv'
           /\ control'.clear = control.clear \/ control'.clear = FALSE
<1>0. FdsType BY DEF FdsType, Tables, TablesType
<1>1. s \in Slots /\ s \notin {Sub, PidScheme} BY DEF Clients, Kept
<1>2. CASE Open(s)
  <2>1. /\ control' = control /\ IsAnswer(reply')
        /\ \A t \in Slots : fds'[t] = fds[t] \/ (t = s /\ fds'[t].sub = "main")
    BY <1>0, <1>1, <1>2, OpenEffect
  <2>2. SlotsInv' BY <1>1, <2>1, SlotsOfMonitor DEF SlotsInv
  <2> QED BY <2>1, <2>2
<1>3. CASE DupFails(s)
  <2>1. /\ control'.clear \in {control.clear, FALSE} /\ IsAnswer(reply') /\ fds' = fds
    BY <1>3, DupFailsEffect
  <2>2. SlotsInv' BY <2>1, SlotsOfMonitor DEF SlotsInv
  <2> QED BY <2>1, <2>2
<1>4. CASE Read(s)
  <2>1. /\ control'.clear = FALSE /\ IsAnswer(reply') /\ fds' = fds
    BY <1>4, ReadEffect
  <2>2. SlotsInv' BY <2>1, SlotsOfMonitor DEF SlotsInv
  <2> QED BY <2>1, <2>2
<1>5. CASE Write(s)
  <2>1. fds[s] # NoFd BY <1>5 DEF Write
  <2>2. handlers[fds[s].id] = "main"
    BY <1>1, <2>1, SlotsOfMonitor DEF SlotsInv, Tables, TablesAgree
  <2>3. control'.clear = FALSE /\ IsAnswer(reply') /\ fds' = fds BY <1>5, <2>2, WriteEffect
  <2>4. SlotsInv' BY <2>3 DEF SlotsInv
  <2> QED BY <2>3, <2>4
<1>6. CASE Close(s)
  <2>1. /\ control'.clear = FALSE /\ IsAnswer(reply')
        /\ \A t \in Slots : fds'[t] = fds[t] \/ fds'[t] = NoFd
    BY <1>1, <1>6, CloseEffect
  <2>2. SlotsInv' BY <2>1, SlotsOfMonitor DEF SlotsInv
  <2> QED BY <2>1, <2>2
<1> QED BY <1>2, <1>3, <1>4, <1>5, <1>6

-----------------------------------------------------------------------------
(* The books.                                                              *)

LEMMA BooksOutside ==
    ASSUME NEW by, Books(by), window = FALSE
    PROVE  lost' = lost /\ strayed' = strayed /\ clears' = clears
BY DEF Books

LEMMA BooksCleared ==
    ASSUME NEW by, Books(by), window = TRUE, control.clear = TRUE, control'.clear = FALSE
    PROVE  lost' = lost /\ strayed' = strayed /\ clears' = clears + 1
BY DEF Books

LEMMA BooksThrown ==
    ASSUME NEW by, Books(by), window = TRUE, control.clear = FALSE \/ control'.clear = TRUE,
           IsAnswer(reply'), lost \in Counts, strayed \in Counts
    PROVE  /\ lost' \in Counts /\ strayed' \in Counts /\ clears' = clears
           /\ \A k \in Kinds : /\ Gain(reply', k) \in {0, 1}
                               /\ lost'[k] = lost[k] + Gain(reply', k)
                               /\ strayed'[k] = IF by = "other" THEN strayed[k] + Gain(reply', k)
                                                ELSE strayed[k]
<1>1. /\ lost' = Gained(lost) /\ clears' = clears
      /\ strayed' = IF by = "other" THEN Gained(strayed) ELSE strayed
  BY DEF Books
<1>2. /\ Gained(lost) \in Counts
      /\ \A k \in Kinds : Gained(lost)[k] = lost[k] + Gain(reply', k) /\ Gain(reply', k) \in {0, 1}
  BY GainedValues
<1>3. /\ Gained(strayed) \in Counts
      /\ \A k \in Kinds : Gained(strayed)[k] = strayed[k] + Gain(reply', k)
  BY GainedValues
<1> QED BY <1>1, <1>2, <1>3

-----------------------------------------------------------------------------
(* What a clear loses.                                                     *)

\* The requests of a clear's write that have been lost when its p-th call comes.
Spent(p, k) ==
    IF (k = "opens" /\ p >= 4) \/ (k = "dups" /\ p >= 5) \/ (k = "closes" /\ p >= 6) THEN 1 ELSE 0

\* Those of the clears before it.
SpentBefore(k) == IF k \in {"opens", "dups", "closes"} THEN clears ELSE 0

LossIs(p) == \A k \in Kinds : lost[k] = strayed[k] + SpentBefore(k) + Spent(p, k)

\* A clear is on its way, and its p-th call after the read comes next.
OnItsWay(p) ==
    /\ GoesOn(calls, p) /\ LossIs(p)
    /\ p <= 6 => control.clear = FALSE
    /\ p = 7 => control.clear = TRUE

LossTypes == lost \in Counts /\ strayed \in Counts /\ clears \in Nat

Clearing ==
    /\ SlotsInv /\ CallsInOrder(calls) /\ LossTypes
    /\ control.clear \in BOOLEAN /\ window \in BOOLEAN
    /\ window = FALSE => control.clear = FALSE /\ WritesFollow(calls) /\ LossIs(0)
    /\ window = TRUE => \E p \in 1 .. 7 : OnItsWay(p)

\* No request of the calls around the write is lost, ...
LEMMA LossStays ==
    ASSUME NEW p \in 0 .. 7, NEW q \in 0 .. 7, LossIs(p),
           lost' = lost, strayed' = strayed, clears' = clears,
           (p <= 3 /\ q <= 3) \/ (p >= 6 /\ q >= 6)
    PROVE  LossIs(q)'
BY DEF LossIs, Spent, SpentBefore

\* ... the clear carried out counts as one more, ...
LEMMA LossCleared ==
    ASSUME LossTypes, LossIs(7), lost' = lost, strayed' = strayed, clears' = clears + 1
    PROVE  LossIs(0)'
<1>1. \A k \in Kinds : lost[k] \in Nat /\ strayed[k] \in Nat BY DEF LossTypes, Counts
<1>2. clears \in Nat BY DEF LossTypes
<1> QED BY <1>1, <1>2 DEF LossIs, Spent, SpentBefore

\* ... and a request of another client is lost with them.
LEMMA LossStrays ==
    ASSUME NEW p \in 0 .. 7, LossTypes, LossIs(p), clears' = clears,
           \A k \in Kinds : /\ Gain(reply', k) \in {0, 1}
                            /\ lost'[k] = lost[k] + Gain(reply', k)
                            /\ strayed'[k] = strayed[k] + Gain(reply', k)
    PROVE  LossIs(p)'
<1>1. \A k \in Kinds : lost[k] \in Nat /\ strayed[k] \in Nat BY DEF LossTypes, Counts
<1>2. clears \in Nat BY DEF LossTypes
<1> QED BY <1>1, <1>2 DEF LossIs, Spent, SpentBefore

\* The open, the dup and the close before the write are lost.
LEMMA LossGrows ==
    ASSUME LossTypes, NEW p \in {3, 4, 5}, LossIs(p), clears' = clears,
           reply'.sub = "main", reply'.ok = TRUE,
           p = 3 => reply'.op = "open", p = 4 => reply'.op = "dup", p = 5 => reply'.op = "close",
           \A k \in Kinds : lost'[k] = lost[k] + Gain(reply', k) /\ strayed'[k] = strayed[k]
    PROVE  LossIs(p + 1)'
<1>1. \A k \in Kinds : lost[k] \in Nat /\ strayed[k] \in Nat BY DEF LossTypes, Counts
<1>2. clears \in Nat BY DEF LossTypes
<1>3. \A k \in Kinds : Gain(reply', k) =
        IF k = (IF p = 3 THEN "opens" ELSE IF p = 4 THEN "dups" ELSE "closes") THEN 1 ELSE 0
  BY CountedKinds DEF Gain
<1>4. \A k \in Kinds : Spent(p + 1, k) = Spent(p, k) + Gain(reply', k)
  BY <1>3 DEF Spent
<1>5. \A k \in Kinds : Spent(p, k) \in Nat /\ Gain(reply', k) \in Nat
  BY <1>3 DEF Spent
<1>6. \A k \in Kinds : SpentBefore(k)' = SpentBefore(k) /\ SpentBefore(k) \in Nat
  BY <1>2 DEF SpentBefore
<1>7. \A k \in Kinds : Spent(p + 1, k)' = Spent(p + 1, k)
  BY DEF Spent
<1> QED BY <1>1, <1>4, <1>5, <1>6, <1>7 DEF LossIs

-----------------------------------------------------------------------------
(* The steps.                                                              *)

\* A request of another client.
LEMMA AskClearing ==
    ASSUME Tables, Clearing, Ask PROVE Clearing'
<1>1. PICK s \in Clients : Open(s) \/ DupFails(s) \/ Read(s) \/ Write(s) \/ Close(s)
  BY DEF Ask
<1>2. /\ calls' = calls /\ Books("other")
      /\ window' = (window /\ clears' = clears)
  BY DEF Ask, Books
<1>3. /\ IsAnswer(reply') /\ SlotsInv'
      /\ control'.clear = control.clear \/ control'.clear = FALSE
  BY <1>1, AskedEffect DEF Clearing
<1>4. LossTypes /\ control.clear \in BOOLEAN /\ window \in BOOLEAN BY DEF Clearing
<1>5. control'.clear \in BOOLEAN BY <1>3, <1>4
<1>6. CallsInOrder(calls)' BY <1>2 DEF Clearing, CallsInOrder, TotalsRead
<1>7. CASE window = FALSE
  <2>1. lost' = lost /\ strayed' = strayed /\ clears' = clears BY <1>2, <1>7, BooksOutside
  <2>2. window' = FALSE BY <1>2, <1>7
  <2>3. control'.clear = FALSE BY <1>3, <1>7 DEF Clearing
  <2>4. WritesFollow(calls)' BY <1>2, <1>7 DEF Clearing, WritesFollow, TotalsRead
  <2>5. LossIs(0) BY <1>7 DEF Clearing
  <2>7. LossIs(0)' BY <2>1, <2>5 DEF LossIs, Spent, SpentBefore
  <2>6. LossTypes' BY <1>4, <2>1 DEF LossTypes
  <2> QED BY <1>3, <1>6, <2>2, <2>3, <2>4, <2>6, <2>7 DEF Clearing
<1>8. CASE window = TRUE
  <2>1. PICK p \in 1 .. 7 : OnItsWay(p) BY <1>8 DEF Clearing
  <2>2. CASE control.clear = TRUE /\ control'.clear = FALSE
    <3>1. lost' = lost /\ strayed' = strayed /\ clears' = clears + 1
      BY <1>2, <1>8, <2>2, BooksCleared
    <3>2. clears' # clears BY <1>4, <3>1 DEF LossTypes
    <3>3. window' = FALSE BY <1>2, <3>2
    <3>4. p = 7 BY <2>1, <2>2 DEF OnItsWay
    <3>5. LossIs(7) /\ GoesOn(calls, 7) BY <2>1, <3>4 DEF OnItsWay
    <3>6. LossIs(0)' BY <1>4, <3>1, <3>5, LossCleared
    <3>7. calls \in Seq(CallType) BY DEF Clearing, CallsInOrder
    <3>8. WritesFollow(calls) BY <3>5, <3>7, LastGoesOn
    <3>9. WritesFollow(calls)' BY <1>2, <3>8 DEF WritesFollow, TotalsRead
    <3>10. LossTypes' BY <1>4, <3>1 DEF LossTypes
    <3> QED BY <1>3, <1>5, <1>6, <2>2, <3>3, <3>6, <3>9, <3>10 DEF Clearing
  <2>3. CASE control.clear = FALSE \/ control'.clear = TRUE
    <3>1. /\ lost' \in Counts /\ strayed' \in Counts /\ clears' = clears
          /\ \A k \in Kinds : /\ Gain(reply', k) \in {0, 1}
                              /\ lost'[k] = lost[k] + Gain(reply', k)
                              /\ strayed'[k] = strayed[k] + Gain(reply', k)
      BY <1>2, <1>3, <1>4, <1>8, <2>3, BooksThrown DEF LossTypes
    <3>2. window' = TRUE BY <1>2, <1>8, <3>1
    <3>3. LossIs(p)' BY <1>4, <2>1, <3>1, LossStrays DEF OnItsWay
    <3>4. GoesOn(calls, p)' BY <1>2, <2>1 DEF OnItsWay, GoesOn
    <3>5. control'.clear = control.clear BY <1>3, <1>4, <2>3
    <3>6. OnItsWay(p)' BY <2>1, <3>3, <3>4, <3>5 DEF OnItsWay
    <3>7. LossTypes' BY <1>4, <3>1 DEF LossTypes
    <3> QED BY <1>3, <1>5, <1>6, <3>2, <3>6, <3>7 DEF Clearing
  <2> QED BY <1>4, <1>5, <2>2, <2>3
<1> QED BY <1>4, <1>7, <1>8

\* The monitor's next request, while no clear is on its way, ...
LEMMA ServeOutside ==
    ASSUME Tables, Clearing, Serve, window = FALSE PROVE Clearing'
<1> DEFINE call == Head(calls)
<1>1. /\ calls # <<>> /\ calls' = Tail(calls) /\ Requested(call) /\ Books("monitor")
      /\ window' = (ForTotals(call) \/ (window /\ clears' = clears))
  BY DEF Serve
<1>2. calls \in Seq(CallType) /\ CallsInOrder(calls) /\ WritesFollow(calls) /\ LossIs(0)
  BY DEF Clearing, CallsInOrder
<1>3. /\ Len(calls) \in Nat \ {0} /\ call = calls[1]
  BY <1>1, <1>2, TailValues
<1>4. CallShape(call)
  BY <1>2, <1>3, SlotsOfMonitor DEF CallsInOrder, CallShape
<1>5. call.op # "write" BY <1>2, <1>3 DEF WritesFollow
<1> HIDE DEF call
<1>6. /\ SlotsInv' /\ control'.clear \in BOOLEAN
      /\ call.op \in {"dup", "read", "close"} => control'.clear = FALSE
      /\ call.op = "open" => control' = control
  BY <1>1, <1>4, RequestedEffect DEF Clearing
<1>7. control'.clear = FALSE
  BY <1>1, <1>5, <1>6 DEF Clearing, Requested
<1>8. lost' = lost /\ strayed' = strayed /\ clears' = clears BY <1>1, BooksOutside
<1>9. LossTypes' BY <1>8 DEF Clearing, LossTypes
<1>10. CallsInOrder(calls') BY <1>1, <1>2, TailInOrder
<1>11. CallsInOrder(calls)' BY <1>10 DEF CallsInOrder, TotalsRead
<1>12. ForTotals(call) <=> TotalsRead(calls, 1)
  BY <1>1, <1>3, <1>5 DEF ForTotals, TotalsRead
<1>13. CASE TotalsRead(calls, 1)
  <2>1. window' = TRUE BY <1>1, <1>12, <1>13
  <2>2. GoesOn(calls', 1) BY <1>1, <1>2, <1>13, ReadStarts
  <2>3. LossIs(1)' BY <1>2, <1>8 DEF LossIs, Spent, SpentBefore
  <2>4. OnItsWay(1)' BY <1>7, <2>2, <2>3 DEF OnItsWay, GoesOn
  <2> QED BY <1>6, <1>7, <1>9, <1>11, <2>1, <2>4 DEF Clearing
<1>14. CASE ~TotalsRead(calls, 1)
  <2>1. window' = FALSE BY <1>1, <1>12, <1>14
  <2>2. WritesFollow(calls') BY <1>1, <1>2, <1>14, TailFollows
  <2>3. LossIs(0)' BY <1>2, <1>8 DEF LossIs, Spent, SpentBefore
  <2>4. WritesFollow(calls)' BY <2>2 DEF WritesFollow, TotalsRead
  <2> QED BY <1>6, <1>7, <1>9, <1>11, <2>1, <2>3, <2>4 DEF Clearing
<1> QED BY <1>13, <1>14

\* ... and while one is.
LEMMA ServeInside ==
    ASSUME Tables, Clearing, Serve, window = TRUE PROVE Clearing'
<1> DEFINE call == Head(calls)
<1>1. /\ calls # <<>> /\ calls' = Tail(calls) /\ Requested(call) /\ Books("monitor")
      /\ window' = (ForTotals(call) \/ (window /\ clears' = clears))
  BY DEF Serve
<1>2. /\ calls \in Seq(CallType) /\ CallsInOrder(calls) /\ LossTypes
      /\ SlotsInv /\ control.clear \in BOOLEAN
  BY DEF Clearing, CallsInOrder
<1>3. PICK p \in 1 .. 7 : OnItsWay(p) BY DEF Clearing
<1>4. call = ClearTail[p]
  <2>1. p \in 1 .. 6 \/ p = 7 OBVIOUS
  <2> QED BY <1>2, <1>3, <2>1, NextGoesOn, LastGoesOn DEF OnItsWay
<1> HIDE DEF call
<1>5. /\ p \in {1, 7} => call.op = "close" /\ call.slot = Sub
      /\ p = 2 => call.op = "add"
      /\ p = 3 => call.op = "open" /\ call.slot = Main
      /\ p = 4 => call.op = "dup" /\ call.slot = Sub
      /\ p = 5 => call.op = "close" /\ call.slot = Main
      /\ p = 6 => call.op = "write" /\ call.slot = Sub
  BY <1>4, ClearTailValues DEF Call, Do
<1>6. p # 2 BY <1>1, <1>5 DEF Requested
<1>7. p \in {1, 3, 4, 5, 6, 7} BY <1>6
<1>8. CallShape(call) BY <1>5, <1>7, SlotsOfMonitor DEF CallShape
<1>9. /\ IsAnswer(reply') /\ SlotsInv' /\ control'.clear \in BOOLEAN
      /\ call.op \in {"dup", "read", "close"} => control'.clear = FALSE
      /\ call.op = "open" => control' = control
      /\ call.op = "write" => control'.clear = TRUE
      /\ reply'.op = call.op
      /\ call.op \in {"open", "dup"} => reply'.sub = "main" /\ reply'.ok = TRUE
      /\ call.op = "close" /\ call.slot = Main => reply'.sub = "main" /\ reply'.ok = TRUE
      /\ call.op \in {"write", "close"} /\ call.slot = Sub => reply'.sub # "main"
  BY <1>1, <1>2, <1>8, RequestedEffect
<1>10. ~ForTotals(call) BY <1>5, <1>7 DEF ForTotals
<1>11. CallsInOrder(calls') BY <1>1, <1>2, TailInOrder
<1>12. CallsInOrder(calls)' BY <1>11 DEF CallsInOrder, TotalsRead
<1>13. CASE p = 7
  <2>1. control.clear = TRUE /\ LossIs(7) /\ GoesOn(calls, 7) BY <1>3, <1>13 DEF OnItsWay
  <2>2. control'.clear = FALSE BY <1>5, <1>9, <1>13
  <2>3. lost' = lost /\ strayed' = strayed /\ clears' = clears + 1
    BY <1>1, <2>1, <2>2, BooksCleared
  <2>4. clears' # clears BY <1>2, <2>3 DEF LossTypes
  <2>5. window' = FALSE BY <1>1, <1>10, <2>4
  <2>6. LossIs(0)' BY <1>2, <2>1, <2>3, LossCleared
  <2>7. WritesFollow(calls') BY <1>1, <1>2, <2>1, LastGoesOn
  <2>8. WritesFollow(calls)' BY <2>7 DEF WritesFollow, TotalsRead
  <2>9. LossTypes' BY <1>2, <2>3 DEF LossTypes
  <2> QED BY <1>9, <1>12, <2>2, <2>5, <2>6, <2>8, <2>9 DEF Clearing
<1>14. CASE p # 7
  <2>1. control.clear = FALSE /\ LossIs(p) /\ GoesOn(calls, p) /\ p \in 1 .. 6
    BY <1>3, <1>14 DEF OnItsWay
  <2>2. /\ lost' \in Counts /\ strayed' \in Counts /\ clears' = clears
        /\ \A k \in Kinds : lost'[k] = lost[k] + Gain(reply', k) /\ strayed'[k] = strayed[k]
    <3>1. "monitor" # "other" OBVIOUS
    <3> QED BY <1>1, <1>2, <1>9, <2>1, <3>1, BooksThrown DEF LossTypes
  <2>3. window' = TRUE BY <1>1, <2>2
  <2>4. LossTypes' BY <1>2, <2>2 DEF LossTypes
  <2>5. GoesOn(calls', p + 1) BY <1>1, <1>2, <2>1, NextGoesOn
  <2>6. LossIs(p + 1)'
    <3>1. CASE p \in {3, 4, 5}
      BY <1>2, <1>5, <1>9, <2>1, <2>2, <3>1, LossGrows
    <3>2. CASE p \in {1, 6}
      <4>1. reply'.sub # "main" BY <1>5, <1>9, <3>2
      <4>2. \A k \in Kinds : Gain(reply', k) = 0 BY <4>1 DEF Gain
      <4>3. \A k \in Kinds : lost'[k] = lost[k] /\ strayed'[k] = strayed[k]
        BY <1>2, <2>2, <4>2 DEF LossTypes, Counts
      <4> QED BY <2>1, <2>2, <3>2, <4>3 DEF LossIs, Spent, SpentBefore
    <3> QED BY <1>7, <1>14, <3>1, <3>2
  <2>7. /\ p + 1 <= 6 => control'.clear = FALSE
        /\ p + 1 = 7 => control'.clear = TRUE
    BY <1>5, <1>7, <1>9, <2>1
  <2>8. p + 1 \in 1 .. 7 BY <2>1
  <2>9. OnItsWay(p + 1)' BY <2>5, <2>6, <2>7 DEF OnItsWay, GoesOn
  <2> QED BY <1>9, <1>12, <2>3, <2>4, <2>8, <2>9 DEF Clearing
<1> QED BY <1>13, <1>14

\* A step on the entry.
LEMMA StepClearing ==
    ASSUME Clearing, NEW op \in {"take", "add", "zero", "tell", "run"}, Step(op),
           UNCHANGED <<control, fds, lost, strayed, window, clears>>
    PROVE  Clearing'
<1>1. calls # <<>> /\ Head(calls) = Do(op) /\ calls' = Tail(calls) BY DEF Step
<1>2. calls \in Seq(CallType) /\ CallsInOrder(calls) /\ LossTypes
  BY DEF Clearing, CallsInOrder
<1>3. CallsInOrder(calls') BY <1>1, <1>2, TailInOrder
<1>4. CallsInOrder(calls)' BY <1>3 DEF CallsInOrder, TotalsRead
<1>5. SlotsInv' /\ LossTypes' BY DEF Clearing, SlotsInv, LossTypes
<1>6. Do(op).op = op BY DEF Do, Call
<1>7. CASE window = FALSE
  <2>1. ~TotalsRead(calls, 1)
    BY <1>1, <1>2, <1>6, TailValues DEF TotalsRead
  <2>2. WritesFollow(calls) /\ LossIs(0) /\ control.clear = FALSE BY <1>7 DEF Clearing
  <2>3. WritesFollow(calls') BY <1>1, <1>2, <2>1, <2>2, TailFollows
  <2>4. WritesFollow(calls)' BY <2>3 DEF WritesFollow, TotalsRead
  <2>5. LossIs(0)' BY <2>2 DEF LossIs, Spent, SpentBefore
  <2> QED BY <1>4, <1>5, <1>7, <2>2, <2>4, <2>5 DEF Clearing
<1>8. CASE window = TRUE
  <2>1. PICK p \in 1 .. 7 : OnItsWay(p) BY <1>8 DEF Clearing
  <2>2. Head(calls) = ClearTail[p] /\ (p # 7 => GoesOn(calls', p + 1))
    <3>1. p \in 1 .. 6 \/ p = 7 OBVIOUS
    <3> QED BY <1>1, <1>2, <2>1, <3>1, NextGoesOn, LastGoesOn DEF OnItsWay
  <2>3. ClearTail[p].op = op BY <1>1, <1>6, <2>2
  <2>4. p = 2
    <3>1. p \in {1, 2, 3, 4, 5, 6, 7} OBVIOUS
    <3> QED BY <2>3, <3>1, ClearTailValues DEF Call, Do
  <2>5. GoesOn(calls', 3) BY <2>2, <2>4
  <2>6. LossIs(2) /\ control.clear = FALSE BY <2>1, <2>4 DEF OnItsWay
  <2>7. LossIs(3)' BY <2>6 DEF LossIs, Spent, SpentBefore
  <2>8. OnItsWay(3)' BY <2>5, <2>6, <2>7 DEF OnItsWay, GoesOn
  <2> QED BY <1>4, <1>5, <1>8, <2>6, <2>8 DEF Clearing
<1> QED BY <1>7, <1>8 DEF Clearing

\* A command begins, ...
LEMMA BeginClearing ==
    ASSUME Clearing, Begin PROVE Clearing'
<1>1. calls = <<>> /\ UNCHANGED <<control, fds, lost, strayed, window, clears>>
  BY DEF Begin, vars, ghosts
<1>2. calls' \in Commands BY DEF Begin
<1>3. CallsInOrder(calls') /\ WritesFollow(calls') BY <1>2, CommandsInOrder
<1>4. CallsInOrder(calls)' /\ WritesFollow(calls)'
  BY <1>3 DEF CallsInOrder, WritesFollow, TotalsRead
<1>5. ASSUME NEW p \in 1 .. 7, OnItsWay(p) PROVE FALSE
  <2>1. Len(calls) = 0 BY <1>1
  <2> QED BY <1>5, <2>1 DEF OnItsWay, GoesOn
<1>6. window = FALSE BY <1>5 DEF Clearing
<1>7. LossIs(0) /\ control.clear = FALSE BY <1>6 DEF Clearing
<1>8. LossIs(0)' BY <1>1, <1>7 DEF LossIs, Spent, SpentBefore
<1>9. SlotsInv' /\ LossTypes' BY <1>1 DEF Clearing, SlotsInv, LossTypes
<1> QED BY <1>1, <1>4, <1>6, <1>7, <1>8, <1>9 DEF Clearing

\* ... and its service is spawned, or killed.
LEMMA NoneOnItsWay ==
    ASSUME Clearing, NEW op \in {"spawn", "kill"}, Step(op)
    PROVE  window = FALSE /\ CallsInOrder(calls)' /\ WritesFollow(calls)'
<1>1. calls # <<>> /\ Head(calls) = Do(op) /\ calls' = Tail(calls) BY DEF Step
<1>2. calls \in Seq(CallType) /\ CallsInOrder(calls) BY DEF Clearing, CallsInOrder
<1>3. Do(op).op = op BY DEF Do, Call
<1>4. ASSUME NEW p \in 1 .. 7, OnItsWay(p) PROVE FALSE
  <2>1. p \in 1 .. 6 \/ p = 7 OBVIOUS
  <2>2. Head(calls) = ClearTail[p]
    BY <1>2, <1>4, <2>1, NextGoesOn, LastGoesOn DEF OnItsWay
  <2>3. ClearTail[p].op = op BY <1>1, <1>3, <2>2
  <2>4. p \in {1, 2, 3, 4, 5, 6, 7} OBVIOUS
  <2> QED BY <2>3, <2>4, ClearTailValues DEF Call, Do
<1>5. window = FALSE BY <1>4 DEF Clearing
<1>6. ~TotalsRead(calls, 1) BY <1>1, <1>2, <1>3, TailValues DEF TotalsRead
<1>7. CallsInOrder(calls') BY <1>1, <1>2, TailInOrder
<1>8. WritesFollow(calls') BY <1>1, <1>2, <1>5, <1>6, TailFollows DEF Clearing
<1> QED BY <1>5, <1>7, <1>8 DEF CallsInOrder, WritesFollow, TotalsRead

LEMMA SpawnClearing ==
    ASSUME Clearing, Spawn PROVE Clearing'
<1>1. /\ Step("spawn") /\ UNCHANGED <<lost, strayed, window, clears>>
      /\ control' = [stop |-> FALSE, clear |-> FALSE] /\ fds' = [s \in Slots |-> NoFd]
  BY DEF Spawn, NewProcess, ghosts
<1>2. window = FALSE /\ CallsInOrder(calls)' /\ WritesFollow(calls)' BY <1>1, NoneOnItsWay
<1>3. LossIs(0) BY <1>2 DEF Clearing
<1>4. LossIs(0)' BY <1>1, <1>3 DEF LossIs, Spent, SpentBefore
<1>5. SlotsInv' BY <1>1, SlotsOfMonitor DEF SlotsInv
<1>6. LossTypes' BY <1>1 DEF Clearing, LossTypes
<1>7. control'.clear = FALSE BY <1>1, Flags
<1> QED BY <1>1, <1>2, <1>4, <1>5, <1>6, <1>7 DEF Clearing

LEMMA KillClearing ==
    ASSUME Clearing, Kill PROVE Clearing'
<1>1. /\ Step("kill") /\ UNCHANGED <<control, fds, window>>
      /\ lost' = Zero /\ strayed' = Zero /\ clears' = 0
  BY DEF Kill
<1>2. window = FALSE /\ CallsInOrder(calls)' /\ WritesFollow(calls)' BY <1>1, NoneOnItsWay
<1>3. LossIs(0)' BY <1>1 DEF LossIs, Spent, SpentBefore, Zero
<1>4. LossTypes' BY <1>1 DEF LossTypes, Zero, Counts
<1>5. SlotsInv' BY <1>1 DEF Clearing, SlotsInv
<1>6. control.clear = FALSE BY <1>2 DEF Clearing
<1> QED BY <1>1, <1>2, <1>3, <1>4, <1>5, <1>6 DEF Clearing

-----------------------------------------------------------------------------
(* The theorem.                                                            *)

\* Until a call times out.
LedgerInv ==
    /\ did \in [jobs: Nat, asked: Nat, timeouts: Nat]
    /\ did.timeouts = 0 => Tables /\ Clearing

\* A process that is new has tables like the first.
LEMMA NewTables == NewProcess => Tables'
<1>1. NewProcess => Init' BY DEF NewProcess, Init
<1>2. Init' => Tables' BY TablesStart, PTL
<1> QED BY <1>1, <1>2

LEMMA LedgerStart == LedgerInit => LedgerInv
<1> SUFFICES ASSUME LedgerInit PROVE LedgerInv
  OBVIOUS
<1>1. Tables BY TablesStart DEF LedgerInit
<1>2. did \in [jobs: Nat, asked: Nat, timeouts: Nat] BY DEF LedgerInit
<1>3. CallsInOrder(calls) /\ WritesFollow(calls) BY CommandsInOrder DEF LedgerInit
<1>4. /\ lost = Zero /\ strayed = Zero /\ clears = 0 /\ window = FALSE
      /\ control = [stop |-> FALSE, clear |-> FALSE] /\ fds = [s \in Slots |-> NoFd]
  BY DEF LedgerInit, Init
<1>5. LossIs(0) /\ LossTypes
  BY <1>4 DEF LossIs, LossTypes, Spent, SpentBefore, Zero, Counts
<1>6. SlotsInv BY <1>4, SlotsOfMonitor DEF SlotsInv
<1>7. control.clear = FALSE BY <1>4, Flags
<1>8. Clearing BY <1>3, <1>4, <1>5, <1>6, <1>7 DEF Clearing
<1> QED BY <1>1, <1>2, <1>8 DEF LedgerInv

LEMMA LedgerStep ==
    ASSUME FewRequests, LedgerInv, [LedgerNext]_ledgerVars PROVE LedgerInv'
<1>1. did' \in [jobs: Nat, asked: Nat, timeouts: Nat] /\ (did'.timeouts = 0 => did.timeouts = 0)
  <2>1. did \in [jobs: Nat, asked: Nat, timeouts: Nat] BY DEF LedgerInv
  <2>2. \/ did' = did
        \/ did' = [did EXCEPT !.jobs = @ + 1] \/ did' = [did EXCEPT !.asked = @ + 1]
        \/ did' = [did EXCEPT !.timeouts = @ + 1]
    BY DEF LedgerNext, ledgerVars, Begin, Serve, Ask, TimedOut, Take, AddUp, SetZero, Tell,
           Run, Spawn, Kill, Step
  <2> QED BY <2>1, <2>2
<1> SUFFICES ASSUME did.timeouts = 0, did'.timeouts = 0 PROVE Tables' /\ Clearing'
  BY <1>1 DEF LedgerInv
<1>2. Tables /\ Clearing BY DEF LedgerInv
<1>3. UNCHANGED vars => Tables' BY <1>2, TablesStep
<1>4. CASE Begin BY <1>2, <1>3, <1>4, BeginClearing DEF Begin
<1>5. CASE Serve
  <2>1. Requested(Head(calls)) /\ calls # <<>> BY <1>5 DEF Serve
  <2>2. CallShape(Head(calls))
    BY <1>2, <2>1, TailValues, SlotsOfMonitor DEF Clearing, CallsInOrder, CallShape
  <2> DEFINE call == Head(calls)
  <2> HIDE DEF call
  <2>3. Requested(call) /\ CallShape(call) BY <2>1, <2>2 DEF call
  <2>4. Next
    BY <2>3, SlotsOfMonitor DEF Requested, CallShape, Next
  <2>5. Tables' BY <1>2, <2>4, TablesStep
  <2>6. Clearing' BY <1>2, <1>5, ServeOutside, ServeInside DEF Clearing
  <2> QED BY <2>5, <2>6
<1>6. CASE Ask
  <2>1. Next BY <1>6 DEF Ask, Next, Clients
  <2> QED BY <1>2, <1>6, <2>1, TablesStep, AskClearing
<1>7. CASE TimedOut
  <2>1. did \in [jobs: Nat, asked: Nat, timeouts: Nat] BY DEF LedgerInv
  <2>2. did'.timeouts = did.timeouts + 1 BY <1>7, <2>1 DEF TimedOut
  <2> QED BY <2>2
<1>8. CASE Take \/ AddUp \/ SetZero \/ Tell
  <2>1. /\ UNCHANGED vars /\ UNCHANGED <<lost, strayed, window, clears>>
        /\ \E op \in {"take", "add", "zero", "tell", "run"} : Step(op)
    BY <1>8 DEF Take, AddUp, SetZero, Tell, ghosts
  <2>2. UNCHANGED <<control, fds>> BY <2>1 DEF vars
  <2> QED BY <1>2, <1>3, <2>1, <2>2, StepClearing
<1>9. CASE Run
  <2>1. /\ UNCHANGED vars /\ UNCHANGED <<lost, strayed, window, clears>> /\ Step("run")
    BY <1>9 DEF Run, ghosts
  <2>2. UNCHANGED <<control, fds>> BY <2>1 DEF vars
  <2> QED BY <1>2, <1>3, <2>1, <2>2, StepClearing
<1>10. CASE Spawn BY <1>2, <1>10, NewTables, SpawnClearing DEF Spawn
<1>11. CASE Kill
  <2>1. UNCHANGED <<files, next_fd, handlers, next_mgmt_id, fds, served>> BY <1>11 DEF Kill
  <2>2. Tables' BY <1>2, <2>1 DEF Tables, TablesType, IdsApart, TablesAgree, IdsUnique
  <2> QED BY <1>2, <1>11, <2>2, KillClearing
<1>12. CASE UNCHANGED ledgerVars
  <2>1. UNCHANGED vars /\ UNCHANGED <<calls, lost, strayed, window, clears>>
    BY <1>12 DEF ledgerVars, ghosts
  <2>2. UNCHANGED <<control, fds>> BY <2>1 DEF vars
  <2>3. Clearing'
    BY <1>2, <2>1, <2>2 DEF Clearing, SlotsInv, CallsInOrder, WritesFollow, TotalsRead, LossTypes,
       LossIs, Spent, SpentBefore, OnItsWay, GoesOn
  <2> QED BY <1>3, <2>1, <2>3
<1> QED
  BY <1>4, <1>5, <1>6, <1>7, <1>8, <1>9, <1>10, <1>11, <1>12 DEF LedgerNext

LEMMA LedgerInvAlways == FewRequests => (LedgerSpec => []LedgerInv)
<1> SUFFICES ASSUME FewRequests PROVE LedgerSpec => []LedgerInv
  OBVIOUS
<1>1. LedgerInv /\ [LedgerNext]_ledgerVars => LedgerInv' BY LedgerStep
<1> QED BY <1>1, LedgerStart, PTL DEF LedgerSpec

\* As long as no call times out, the counts that neither a read nor a clear will find are
\* those of the open, the dup and the close each clear needs for its write, and of the
\* requests others sent between a clear's read and the end of its write (clear() of the
\* monitor's main.rs), while fewer requests come than there are ids.
THEOREM LossCorrect == FewRequests => (LedgerSpec => []LossIsOwn)
<1>1. LedgerInv => LossIsOwn
  <2> SUFFICES ASSUME LedgerInv, did.timeouts = 0, ~window, NEW k \in Kinds
               PROVE  lost[k] = strayed[k] + clears * Own[k]
    BY DEF LossIsOwn
  <2>1. LossIs(0) /\ clears \in Nat BY DEF LedgerInv, Clearing, LossTypes
  <2>2. strayed[k] \in Nat BY DEF LedgerInv, Clearing, LossTypes, Counts
  <2>3. lost[k] = strayed[k] + SpentBefore(k) BY <2>1, <2>2 DEF LossIs, Spent, SpentBefore
  <2>4. Own[k] = IF k \in {"opens", "dups", "closes"} THEN 1 ELSE 0 BY DEF Own
  <2>5. clears * Own[k] = SpentBefore(k) BY <2>1, <2>4 DEF SpentBefore
  <2> QED BY <2>3, <2>5
<1> QED BY <1>1, LedgerInvAlways, PTL
=============================================================================
