-------------------------- MODULE LedgerCalls_proofs --------------------------
(***************************************************************************)
(* The order of the calls that the commands of the monitor are made of,    *)
(* which every call and every timeout keeps, and what the monitor has when *)
(* it makes them: a descriptor that is open, a process, a buffer of counts.*)
(***************************************************************************)
EXTENDS StatsLedger_proofs

-----------------------------------------------------------------------------
(* The order.                                                              *)

Steps == {"take", "add", "zero", "tell", "run", "spawn", "kill"}

\* The calls there are.
Shape(c) ==
    \/ c.op = "open" /\ c.slot \in {Main, ChildScheme}
    \/ c.op = "dup" /\ c.slot = Sub
    \/ c.op = "dup" /\ c.slot = PidScheme
    \/ c.op = "close" /\ c.slot \in {Main, Sub} /\ c.name = "none"
    \/ c.op \in {"read", "write"} /\ c.slot = Sub /\ c.name \in MgmtNames
    \/ c.op = "read" /\ c.slot = PidScheme /\ c.name = "pid"
    \/ c.op \in Steps

\* A read of the counts, and what takes them from the buffer.
Counting(c) == c.op = "read" /\ c.name = "request_count"
Takes(c) == c.op \in {"take", "add"}

\* What the call after a call is.
Follows(a, b) ==
    /\ a.op = "open" => b.op = "dup" /\ b.slot = (IF a.slot = Main THEN Sub ELSE PidScheme)
    /\ a.op = "dup" => IF a.slot = Sub THEN b.op = "close" /\ b.slot = Main
                       ELSE b.op = "read" /\ b.slot = PidScheme
    /\ a.op = "close" /\ a.slot = Main => b.op \in {"read", "write"} /\ b.slot = Sub
    /\ a.op = "close" /\ a.slot = Sub => b.op = "open" \/ b.op \in Steps
    /\ a.op \in {"read", "write"} =>
         IF a.slot = Sub THEN b.op = "close" /\ b.slot = Sub ELSE b.op \in {"open", "run"}
    /\ a.op \in Steps => b.op = "open" \/ b.op \in Steps \ {"take", "add"}
    /\ b.op # "spawn"

Shapes(list) == \A i \in 1 .. Len(list) : Shape(list[i])
Pairs(list) == \A i \in 1 .. Len(list) - 1 : Follows(list[i], list[i + 1])

\* A helper asks the scheme it has a descriptor of, and closes the descriptor.
Named(list) ==
    /\ \A i \in 1 .. Len(list) - 2 :
         list[i].op = "dup" /\ list[i].slot = Sub => list[i + 2].name = list[i].name
    /\ \A i \in 1 .. Len(list) :
         list[i].op \in {"read", "write"} /\ list[i].slot = Sub => i < Len(list)

\* The counts are taken right after they are read.
Taken(list) ==
    /\ \A i \in 1 .. Len(list) : Counting(list[i]) => i + 2 <= Len(list) /\ Takes(list[i + 2])
    /\ \A i \in 3 .. Len(list) : Takes(list[i]) => Counting(list[i - 2])

\* How a command ends.
Ended(list) ==
    /\ \A i \in 1 .. Len(list) : list[i].op \in {"tell", "run", "kill"} => i = Len(list)
    /\ \A i, j \in 1 .. Len(list) : list[i].op \in {"add", "zero"} => list[j].op # "tell"
    /\ \A i, j \in 1 .. Len(list) : TotalsRead(list, i) /\ j > i + 7 => list[j].op \in {"zero", "kill"}

Ordered(list) ==
    CallsInOrder(list) /\ Shapes(list) /\ Pairs(list) /\ Named(list) /\ Taken(list) /\ Ended(list)

\* A list without its first call.
LEMMA TailOrdered ==
    ASSUME NEW list, Ordered(list), list # <<>>
    PROVE  Ordered(Tail(list))
<1> DEFINE rest == Tail(list)
<1>1. /\ rest \in Seq(CallType) /\ Len(list) \in Nat \ {0} /\ Len(rest) = Len(list) - 1
      /\ \A i \in 1 .. Len(list) - 1 : rest[i] = list[i + 1]
  BY TailValues DEF Ordered, CallsInOrder
<1>2. \A i \in Nat \ {0} : TotalsRead(rest, i) <=> TotalsRead(list, i + 1)
  BY <1>1, TailReads DEF Ordered, CallsInOrder
<1>3. CallsInOrder(rest) BY TailInOrder DEF Ordered
<1> HIDE DEF rest
<1>4. Shapes(rest) BY <1>1 DEF Ordered, Shapes
<1>5. Pairs(rest)
  <2> SUFFICES ASSUME NEW i \in 1 .. Len(rest) - 1 PROVE Follows(rest[i], rest[i + 1])
    BY DEF Pairs
  <2>1. i + 1 \in 1 .. Len(list) - 1 /\ rest[i] = list[i + 1] /\ rest[i + 1] = list[(i + 1) + 1]
    BY <1>1
  <2> QED BY <2>1 DEF Ordered, Pairs
<1>6. Named(rest)
  <2>1. ASSUME NEW i \in 1 .. Len(rest) - 2, rest[i].op = "dup", rest[i].slot = Sub
        PROVE  rest[i + 2].name = rest[i].name
    <3>1. i + 1 \in 1 .. Len(list) - 2 /\ rest[i] = list[i + 1] /\ rest[i + 2] = list[(i + 1) + 2]
      BY <1>1
    <3> QED BY <2>1, <3>1 DEF Ordered, Named
  <2>2. ASSUME NEW i \in 1 .. Len(rest), rest[i].op \in {"read", "write"}, rest[i].slot = Sub
        PROVE  i < Len(rest)
    <3>1. i + 1 \in 1 .. Len(list) /\ rest[i] = list[i + 1] BY <1>1
    <3>2. i + 1 < Len(list) BY <2>2, <3>1 DEF Ordered, Named
    <3> QED BY <1>1, <3>2
  <2> QED BY <2>1, <2>2 DEF Named
<1>7. Taken(rest)
  <2>1. ASSUME NEW i \in 1 .. Len(rest), Counting(rest[i])
        PROVE  i + 2 <= Len(rest) /\ Takes(rest[i + 2])
    <3>1. i + 1 \in 1 .. Len(list) /\ rest[i] = list[i + 1] BY <1>1
    <3>2. (i + 1) + 2 <= Len(list) /\ Takes(list[(i + 1) + 2]) BY <2>1, <3>1 DEF Ordered, Taken
    <3>3. rest[i + 2] = list[(i + 1) + 2] BY <1>1, <3>1, <3>2
    <3> QED BY <1>1, <3>2, <3>3
  <2>2. ASSUME NEW i \in 3 .. Len(rest), Takes(rest[i]) PROVE Counting(rest[i - 2])
    <3>1. i + 1 \in 3 .. Len(list) /\ rest[i] = list[i + 1] /\ rest[i - 2] = list[(i + 1) - 2]
      BY <1>1
    <3> QED BY <2>2, <3>1 DEF Ordered, Taken
  <2> QED BY <2>1, <2>2 DEF Taken
<1>8. Ended(rest)
  <2>0. \A i \in 1 .. Len(rest) : i + 1 \in 1 .. Len(list) /\ rest[i] = list[i + 1] /\ i \in Nat \ {0}
    BY <1>1
  <2>1. ASSUME NEW i \in 1 .. Len(rest), rest[i].op \in {"tell", "run", "kill"}
        PROVE  i = Len(rest)
    <3>1. i + 1 = Len(list) BY <2>0, <2>1 DEF Ordered, Ended
    <3> QED BY <1>1, <3>1
  <2>2. ASSUME NEW i \in 1 .. Len(rest), NEW j \in 1 .. Len(rest), rest[i].op \in {"add", "zero"}
        PROVE  rest[j].op # "tell"
    BY <2>0, <2>2 DEF Ordered, Ended
  <2>3. ASSUME NEW i \in 1 .. Len(rest), NEW j \in 1 .. Len(rest), TotalsRead(rest, i), j > i + 7
        PROVE  rest[j].op \in {"zero", "kill"}
    <3>1. TotalsRead(list, i + 1) BY <1>2, <2>0, <2>3
    <3>2. j + 1 > (i + 1) + 7 BY <1>1, <2>3
    <3>3. list[j + 1].op \in {"zero", "kill"} BY <2>0, <3>1, <3>2 DEF Ordered, Ended
    <3> QED BY <2>0, <3>3
  <2> QED BY <2>1, <2>2, <2>3 DEF Ended
<1> QED BY <1>3, <1>4, <1>5, <1>6, <1>7, <1>8 DEF Ordered, rest

\* The calls of update_service_info, and of info.
UpdateForm(list) ==
    /\ list \in Seq(CallType) /\ Len(list) \in {16, 17}
    /\ list[1] = Call("open", Main, "none") /\ list[2] = Call("dup", Sub, "message")
    /\ list[3] = Call("close", Main, "none") /\ list[4] = Call("read", Sub, "message")
    /\ list[5] = Call("close", Sub, "none")
    /\ list[6] = Call("open", Main, "none") /\ list[7] = Call("dup", Sub, "request_count")
    /\ list[8] = Call("close", Main, "none") /\ list[9] = Call("read", Sub, "request_count")
    /\ list[10] = Call("close", Sub, "none") /\ list[11] = Do("take")
    /\ list[12] = Call("open", Main, "none") /\ list[13] = Call("dup", Sub, "time_stamp")
    /\ list[14] = Call("close", Main, "none") /\ list[15] = Call("read", Sub, "time_stamp")
    /\ list[16] = Call("close", Sub, "none")
    /\ Len(list) = 17 => list[17] = Do("tell")

LEMMA UpdateFront == UpdateForm(UpdateCalls) /\ UpdateForm(UpdateCalls \o <<Do("tell")>>)
<1> DEFINE m == Helper("read", "message")
           r == Helper("read", "request_count")
           t == <<Do("take")>>
           s == Helper("read", "time_stamp")
           e == <<Do("tell")>>
<1>1. /\ m \in Seq(CallType) /\ Len(m) = 5
      /\ m[1] = Call("open", Main, "none") /\ m[2] = Call("dup", Sub, "message")
      /\ m[3] = Call("close", Main, "none") /\ m[4] = Call("read", Sub, "message")
      /\ m[5] = Call("close", Sub, "none")
  BY HelperValues DEF MgmtNames
<1>2. /\ r \in Seq(CallType) /\ Len(r) = 5
      /\ r[1] = Call("open", Main, "none") /\ r[2] = Call("dup", Sub, "request_count")
      /\ r[3] = Call("close", Main, "none") /\ r[4] = Call("read", Sub, "request_count")
      /\ r[5] = Call("close", Sub, "none")
  BY HelperValues DEF MgmtNames
<1>3. /\ s \in Seq(CallType) /\ Len(s) = 5
      /\ s[1] = Call("open", Main, "none") /\ s[2] = Call("dup", Sub, "time_stamp")
      /\ s[3] = Call("close", Main, "none") /\ s[4] = Call("read", Sub, "time_stamp")
      /\ s[5] = Call("close", Sub, "none")
  BY HelperValues DEF MgmtNames
<1>4. t \in Seq(CallType) /\ Len(t) = 1 /\ t[1] = Do("take") BY OneStep DEF CallOps
<1>5. e \in Seq(CallType) /\ Len(e) = 1 /\ e[1] = Do("tell") BY OneStep DEF CallOps
<1>6. UpdateCalls = ((m \o r) \o t) \o s BY DEF UpdateCalls
<1> HIDE DEF m, r, t, s, e
<1> DEFINE a == m \o r
<1>7. /\ a \in Seq(CallType) /\ Len(a) = 10
      /\ \A i \in 1 .. 10 : a[i] = IF i <= 5 THEN m[i] ELSE r[i - 5]
  <2>1. /\ a \in Seq(CallType) /\ Len(a) = Len(m) + Len(r)
        /\ \A i \in 1 .. Len(m) + Len(r) : a[i] = IF i <= Len(m) THEN m[i] ELSE r[i - Len(m)]
    BY <1>1, <1>2, Concatenated
  <2> HIDE DEF a
  <2> QED BY <1>1, <1>2, <2>1
<1> HIDE DEF a
<1> DEFINE b == a \o t
<1>8. /\ b \in Seq(CallType) /\ Len(b) = 11
      /\ \A i \in 1 .. 11 : b[i] = IF i <= 10 THEN a[i] ELSE t[i - 10]
  <2>1. /\ b \in Seq(CallType) /\ Len(b) = Len(a) + Len(t)
        /\ \A i \in 1 .. Len(a) + Len(t) : b[i] = IF i <= Len(a) THEN a[i] ELSE t[i - Len(a)]
    BY <1>4, <1>7, Concatenated
  <2> HIDE DEF b
  <2> QED BY <1>4, <1>7, <2>1
<1> HIDE DEF b
<1> DEFINE u == b \o s
<1>9. /\ u \in Seq(CallType) /\ Len(u) = 16
      /\ \A i \in 1 .. 16 : u[i] = IF i <= 11 THEN b[i] ELSE s[i - 11]
  <2>1. /\ u \in Seq(CallType) /\ Len(u) = Len(b) + Len(s)
        /\ \A i \in 1 .. Len(b) + Len(s) : u[i] = IF i <= Len(b) THEN b[i] ELSE s[i - Len(b)]
    BY <1>3, <1>8, Concatenated
  <2> HIDE DEF u
  <2> QED BY <1>3, <1>8, <2>1
<1>10. u = UpdateCalls BY <1>6 DEF a, b, u
<1> HIDE DEF u
<1>11. /\ a[1] = m[1] /\ a[2] = m[2] /\ a[3] = m[3] /\ a[4] = m[4] /\ a[5] = m[5]
       /\ a[6] = r[1] /\ a[7] = r[2] /\ a[8] = r[3] /\ a[9] = r[4] /\ a[10] = r[5]
  BY <1>7
<1>12. b[11] = t[1] /\ \A i \in 1 .. 10 : b[i] = a[i] BY <1>8
<1>13. /\ u[12] = s[1] /\ u[13] = s[2] /\ u[14] = s[3] /\ u[15] = s[4] /\ u[16] = s[5]
       /\ \A i \in 1 .. 11 : u[i] = b[i]
  BY <1>9
<1>14. /\ u[1] = m[1] /\ u[2] = m[2] /\ u[3] = m[3] /\ u[4] = m[4] /\ u[5] = m[5]
       /\ u[6] = r[1] /\ u[7] = r[2] /\ u[8] = r[3] /\ u[9] = r[4] /\ u[10] = r[5] /\ u[11] = t[1]
  BY <1>11, <1>12, <1>13
<1>15. UpdateForm(u) BY <1>1, <1>2, <1>3, <1>4, <1>9, <1>13, <1>14 DEF UpdateForm
<1> DEFINE v == u \o e
<1>16. /\ v \in Seq(CallType) /\ Len(v) = 17
       /\ \A i \in 1 .. 17 : v[i] = IF i <= 16 THEN u[i] ELSE e[i - 16]
  <2>1. /\ v \in Seq(CallType) /\ Len(v) = Len(u) + Len(e)
        /\ \A i \in 1 .. Len(u) + Len(e) : v[i] = IF i <= Len(u) THEN u[i] ELSE e[i - Len(u)]
    BY <1>5, <1>9, Concatenated
  <2> HIDE DEF v
  <2> QED BY <1>5, <1>9, <2>1
<1>17. v = UpdateCalls \o <<Do("tell")>> BY <1>10 DEF v, e
<1> HIDE DEF v
<1>18. /\ v[1] = u[1] /\ v[2] = u[2] /\ v[3] = u[3] /\ v[4] = u[4] /\ v[5] = u[5] /\ v[6] = u[6]
       /\ v[7] = u[7] /\ v[8] = u[8] /\ v[9] = u[9] /\ v[10] = u[10] /\ v[11] = u[11]
       /\ v[12] = u[12] /\ v[13] = u[13] /\ v[14] = u[14] /\ v[15] = u[15] /\ v[16] = u[16]
       /\ v[17] = e[1]
  BY <1>16
<1>19. UpdateForm(v) BY <1>5, <1>15, <1>16, <1>18 DEF UpdateForm
<1> QED BY <1>10, <1>15, <1>17, <1>19

\* Which calls these lists have, place by place.
LEMMA UpdateOps ==
    ASSUME NEW list, UpdateForm(list)
    PROVE  /\ Len(list) \in {16, 17}
           /\ \A i \in {1, 6, 12} : list[i].op = "open" /\ list[i].slot = Main
           /\ \A i \in {2, 7, 13} : /\ list[i].op = "dup" /\ list[i].slot = Sub
                                    /\ list[i + 2].name = list[i].name
           /\ \A i \in {3, 8, 14} : list[i].op = "close" /\ list[i].slot = Main /\ list[i].name = "none"
           /\ \A i \in {4, 9, 15} : /\ list[i].op = "read" /\ list[i].slot = Sub
                                    /\ list[i].name \in MgmtNames
                                    /\ list[i].name = "request_count" <=> i = 9
           /\ \A i \in {5, 10, 16} : list[i].op = "close" /\ list[i].slot = Sub /\ list[i].name = "none"
           /\ list[11].op = "take"
           /\ Len(list) = 17 => list[17].op = "tell"
<1>1. /\ list[1].op = "open" /\ list[1].slot = Main /\ list[6].op = "open" /\ list[6].slot = Main
      /\ list[12].op = "open" /\ list[12].slot = Main
  BY DEF UpdateForm, Call
<1>2. /\ list[2].op = "dup" /\ list[2].slot = Sub /\ list[2].name = "message"
      /\ list[7].op = "dup" /\ list[7].slot = Sub /\ list[7].name = "request_count"
      /\ list[13].op = "dup" /\ list[13].slot = Sub /\ list[13].name = "time_stamp"
  BY DEF UpdateForm, Call
<1>3. /\ list[3].op = "close" /\ list[3].slot = Main /\ list[3].name = "none"
      /\ list[8].op = "close" /\ list[8].slot = Main /\ list[8].name = "none"
      /\ list[14].op = "close" /\ list[14].slot = Main /\ list[14].name = "none"
  BY DEF UpdateForm, Call
<1>4. /\ list[4].op = "read" /\ list[4].slot = Sub /\ list[4].name = "message"
      /\ list[9].op = "read" /\ list[9].slot = Sub /\ list[9].name = "request_count"
      /\ list[15].op = "read" /\ list[15].slot = Sub /\ list[15].name = "time_stamp"
  BY DEF UpdateForm, Call
<1>5. /\ list[5].op = "close" /\ list[5].slot = Sub /\ list[5].name = "none"
      /\ list[10].op = "close" /\ list[10].slot = Sub /\ list[10].name = "none"
      /\ list[16].op = "close" /\ list[16].slot = Sub /\ list[16].name = "none"
  BY DEF UpdateForm, Call
<1>6. /\ Len(list) \in {16, 17} /\ list[11].op = "take"
      /\ Len(list) = 17 => list[17].op = "tell"
  BY DEF UpdateForm, Call, Do
<1>7. \A i \in {1, 6, 12} : list[i].op = "open" /\ list[i].slot = Main BY <1>1
<1>8. \A i \in {2, 7, 13} : /\ list[i].op = "dup" /\ list[i].slot = Sub
                            /\ list[i + 2].name = list[i].name
  BY <1>2, <1>4
<1>9. \A i \in {3, 8, 14} : list[i].op = "close" /\ list[i].slot = Main /\ list[i].name = "none"
  BY <1>3
<1>10. \A i \in {4, 9, 15} : /\ list[i].op = "read" /\ list[i].slot = Sub
                             /\ list[i].name \in MgmtNames
                             /\ list[i].name = "request_count" <=> i = 9
  BY <1>4 DEF MgmtNames
<1>11. \A i \in {5, 10, 16} : list[i].op = "close" /\ list[i].slot = Sub /\ list[i].name = "none"
  BY <1>5
<1> QED BY <1>6, <1>7, <1>8, <1>9, <1>10, <1>11

LEMMA UpdateOrdered ==
    ASSUME NEW list, UpdateForm(list)
    PROVE  Shapes(list) /\ Pairs(list) /\ Named(list) /\ Taken(list) /\ Ended(list)
<1>0. Main # Sub BY LedgerAssumption
<1>1. /\ Len(list) \in {16, 17} /\ list[11].op = "take"
      /\ Len(list) = 17 => list[17].op = "tell"
  BY UpdateOps
<1>opens. \A i \in {1, 6, 12} : list[i].op = "open" /\ list[i].slot = Main BY UpdateOps
<1>dups. \A i \in {2, 7, 13} : list[i].op = "dup" /\ list[i].slot = Sub BY UpdateOps
<1>names. \A i \in {2, 7, 13} : list[i + 2].name = list[i].name BY UpdateOps
<1>mains. \A i \in {3, 8, 14} : list[i].op = "close" /\ list[i].slot = Main /\ list[i].name = "none"
  BY UpdateOps
<1>reads. \A i \in {4, 9, 15} : /\ list[i].op = "read" /\ list[i].slot = Sub
                                /\ list[i].name \in MgmtNames
                                /\ list[i].name = "request_count" <=> i = 9
  BY UpdateOps
<1>subs. \A i \in {5, 10, 16} : list[i].op = "close" /\ list[i].slot = Sub /\ list[i].name = "none"
  BY UpdateOps
<1>2. \A i \in 1 .. Len(list) :
        \/ i \in {1, 6, 12} \/ i \in {2, 7, 13} \/ i \in {3, 8, 14} \/ i \in {4, 9, 15}
        \/ i \in {5, 10, 16} \/ i = 11 \/ (i = 17 /\ Len(list) = 17)
  <2>1. CASE Len(list) = 16 BY <2>1
  <2>2. CASE Len(list) = 17 BY <2>2
  <2> QED BY <1>1, <2>1, <2>2
<1>3. Shapes(list)
  <2> SUFFICES ASSUME NEW i \in 1 .. Len(list) PROVE Shape(list[i]) BY DEF Shapes
  <2>1. CASE i \in {1, 6, 12} BY <1>opens, <2>1 DEF Shape
  <2>2. CASE i \in {2, 7, 13} BY <1>dups, <2>2 DEF Shape
  <2>3. CASE i \in {3, 8, 14} BY <1>mains, <2>3 DEF Shape
  <2>4. CASE i \in {4, 9, 15} BY <1>reads, <2>4 DEF Shape
  <2>5. CASE i \in {5, 10, 16} BY <1>subs, <2>5 DEF Shape
  <2>6. CASE i = 11 BY <1>1, <2>6 DEF Shape, Steps
  <2>7. CASE i = 17 /\ Len(list) = 17 BY <1>1, <2>7 DEF Shape, Steps
  <2> QED BY <1>2, <2>1, <2>2, <2>3, <2>4, <2>5, <2>6, <2>7
<1>4. Pairs(list)
  <2> SUFFICES ASSUME NEW i \in 1 .. Len(list) - 1 PROVE Follows(list[i], list[i + 1])
    BY DEF Pairs
  <2> DEFINE a == list[i]
             b == list[i + 1]
  <2>0. i \in 1 .. Len(list) BY <1>1
  <2>9. i < 17 /\ (i = 16 => Len(list) # 16)
    <3>1. CASE Len(list) = 16 BY <3>1
    <3>2. CASE Len(list) = 17 BY <3>2
    <3> QED BY <1>1, <3>1, <3>2
  <2>1. CASE i \in {1, 6, 12}
    <3>1. i + 1 \in {2, 7, 13} BY <2>1
    <3>2. a.op = "open" /\ a.slot = Main /\ b.op = "dup" /\ b.slot = Sub BY <1>opens, <1>dups, <2>1, <3>1
    <3> HIDE DEF a, b
    <3>3. Follows(a, b) BY <3>2 DEF Follows, Steps
    <3> QED BY <3>3 DEF a, b
  <2>2. CASE i \in {2, 7, 13}
    <3>1. i + 1 \in {3, 8, 14} BY <2>2
    <3>2. a.op = "dup" /\ a.slot = Sub /\ b.op = "close" /\ b.slot = Main BY <1>dups, <1>mains, <2>2, <3>1
    <3> HIDE DEF a, b
    <3>3. Follows(a, b) BY <3>2 DEF Follows, Steps
    <3> QED BY <3>3 DEF a, b
  <2>3. CASE i \in {3, 8, 14}
    <3>1. i + 1 \in {4, 9, 15} BY <2>3
    <3>2. a.op = "close" /\ a.slot = Main /\ b.op = "read" /\ b.slot = Sub BY <1>mains, <1>reads, <2>3, <3>1
    <3> HIDE DEF a, b
    <3>3. Follows(a, b) BY <1>0, <3>2 DEF Follows, Steps
    <3> QED BY <3>3 DEF a, b
  <2>4. CASE i \in {4, 9, 15}
    <3>1. i + 1 \in {5, 10, 16} BY <2>4
    <3>2. a.op = "read" /\ a.slot = Sub /\ b.op = "close" /\ b.slot = Sub BY <1>reads, <1>subs, <2>4, <3>1
    <3> HIDE DEF a, b
    <3>3. Follows(a, b) BY <3>2 DEF Follows, Steps
    <3> QED BY <3>3 DEF a, b
  <2>5. CASE i \in {5, 10, 16}
    <3>1. a.op = "close" /\ a.slot = Sub BY <1>subs, <2>5
    <3>2. CASE i = 5
      <4>1. b.op = "open" BY <1>opens, <3>2
      <4> HIDE DEF a, b
      <4>2. Follows(a, b) BY <1>0, <3>1, <4>1 DEF Follows, Steps
      <4> QED BY <4>2 DEF a, b
    <3>3. CASE i = 10
      <4>1. b.op = "take" BY <1>1, <3>3
      <4> HIDE DEF a, b
      <4>2. Follows(a, b) BY <1>0, <3>1, <4>1 DEF Follows, Steps
      <4> QED BY <4>2 DEF a, b
    <3>4. CASE i = 16
      <4>0. Len(list) = 17 BY <1>1, <2>9, <3>4
      <4>1. b.op = "tell" BY <1>1, <3>4, <4>0
      <4> HIDE DEF a, b
      <4>2. Follows(a, b) BY <1>0, <3>1, <4>1 DEF Follows, Steps
      <4> QED BY <4>2 DEF a, b
    <3> QED BY <2>5, <3>2, <3>3, <3>4
  <2>6. CASE i = 11
    <3>1. a.op = "take" /\ b.op = "open" BY <1>1, <1>opens, <2>6
    <3> HIDE DEF a, b
    <3>2. Follows(a, b) BY <3>1 DEF Follows, Steps
    <3> QED BY <3>2 DEF a, b
  <2>7. ~(i = 17) BY <2>9
  <2> QED BY <1>2, <2>0, <2>1, <2>2, <2>3, <2>4, <2>5, <2>6, <2>7
<1>5. \A i \in 1 .. Len(list) :
        /\ list[i].op = "dup" => i \in {2, 7, 13}
        /\ list[i].op \in {"read", "write"} => i \in {4, 9, 15}
        /\ Counting(list[i]) => i = 9
        /\ Takes(list[i]) => i = 11
        /\ list[i].op \notin {"add", "zero"}
        /\ list[i].op \in {"tell", "run", "kill"} => i = 17 /\ Len(list) = 17
  <2> TAKE i \in 1 .. Len(list)
  <2>1. CASE i \in {1, 6, 12} BY <1>opens, <2>1 DEF Counting, Takes
  <2>2. CASE i \in {2, 7, 13} BY <1>dups, <2>2 DEF Counting, Takes
  <2>3. CASE i \in {3, 8, 14} BY <1>mains, <2>3 DEF Counting, Takes
  <2>4. CASE i \in {4, 9, 15} BY <1>reads, <2>4 DEF Counting, Takes
  <2>5. CASE i \in {5, 10, 16} BY <1>subs, <2>5 DEF Counting, Takes
  <2>6. CASE i = 11 BY <1>1, <2>6 DEF Counting, Takes
  <2>7. CASE i = 17 /\ Len(list) = 17 BY <1>1, <2>7 DEF Counting, Takes
  <2> QED BY <1>2, <2>1, <2>2, <2>3, <2>4, <2>5, <2>6, <2>7
<1>6. Named(list)
  <2>1. ASSUME NEW i \in 1 .. Len(list) - 2, list[i].op = "dup" PROVE list[i + 2].name = list[i].name
    <3>1. i \in 1 .. Len(list) BY <1>1
    <3>2. i \in {2, 7, 13} BY <1>5, <2>1, <3>1
    <3> QED BY <1>names, <3>2
  <2>2. ASSUME NEW i \in 1 .. Len(list), list[i].op \in {"read", "write"} PROVE i < Len(list)
    <3>1. i \in {4, 9, 15} BY <1>5, <2>2
    <3>2. Len(list) = 16 \/ Len(list) = 17 BY <1>1
    <3>3. i < 16 BY ONLY <3>1
    <3>4. CASE Len(list) = 16 BY ONLY <3>3, <3>4
    <3>5. CASE Len(list) = 17 BY ONLY <3>1, <3>5
    <3> QED BY <3>2, <3>4, <3>5
  <2> QED BY <2>1, <2>2 DEF Named
<1>7. Taken(list)
  <2>1. Counting(list[9]) /\ Takes(list[11]) BY <1>1, <1>reads DEF Counting, Takes
  <2>2. ASSUME NEW i \in 1 .. Len(list), Counting(list[i])
        PROVE  i + 2 <= Len(list) /\ Takes(list[i + 2])
    <3>1. i = 9 BY <1>5, <2>2
    <3> QED BY <1>1, <2>1, <3>1
  <2>3. ASSUME NEW i \in 3 .. Len(list), Takes(list[i]) PROVE Counting(list[i - 2])
    <3>1. i \in 1 .. Len(list) BY <1>1
    <3>2. i = 11 BY <1>5, <2>3, <3>1
    <3> QED BY <2>1, <3>2
  <2> QED BY <2>2, <2>3 DEF Taken
<1>8. Ended(list)
  <2>1. \A i \in 1 .. Len(list) : ~TotalsRead(list, i)
    <3> TAKE i \in 1 .. Len(list)
    <3>1. i \in 1 .. Len(list) - 2 => i + 2 \in 1 .. Len(list) BY <1>1
    <3> QED BY <1>5, <3>1 DEF TotalsRead
  <2> QED BY <1>5, <2>1 DEF Ended
<1> QED BY <1>3, <1>4, <1>6, <1>7, <1>8

\* The calls of clear, and those of a stop.
ClearOrStop(list) ==
    /\ ClearForm(list) /\ Len(list) \in {12, 13}
    /\ list[12].op = "zero"
    /\ Len(list) = 13 => list[13].op = "kill"

LEMMA ClearEnds == ClearOrStop(ClearCalls) /\ ClearOrStop(ClearCalls \o <<Do("kill")>>)
<1> DEFINE r == Helper("read", "request_count")
           a == <<Do("add")>>
           w == Helper("write", "control")
           z == <<Do("zero")>>
           e == <<Do("kill")>>
           u == (r \o a) \o w
           v == u \o z
           x == v \o e
<1>1. r \in Seq(CallType) /\ Len(r) = 5 /\ w \in Seq(CallType) /\ Len(w) = 5
  BY HelperValues DEF MgmtNames
<1>2. /\ a \in Seq(CallType) /\ Len(a) = 1 /\ z \in Seq(CallType) /\ Len(z) = 1 /\ z[1].op = "zero"
      /\ e \in Seq(CallType) /\ Len(e) = 1 /\ e[1].op = "kill"
  BY OneStep DEF CallOps
<1>3. u \in Seq(CallType) /\ Len(u) = 11
  <2> HIDE DEF r, a, w
  <2> DEFINE m == r \o a
  <2>1. m \in Seq(CallType) /\ Len(m) = Len(r) + Len(a) BY <1>1, <1>2, Concatenated
  <2> HIDE DEF m
  <2>2. m \o w \in Seq(CallType) /\ Len(m \o w) = Len(m) + Len(w) BY <1>1, <2>1, Concatenated
  <2>3. Len(m) + Len(w) = 11 BY <1>1, <1>2, <2>1
  <2> QED BY <2>2, <2>3 DEF m
<1>4. ClearForm(u) /\ ClearForm(v) /\ ClearForm(x) BY ClearFront, ClearLonger
<1>5. v = ClearCalls /\ x = ClearCalls \o <<Do("kill")>> BY DEF ClearCalls
<1> HIDE DEF r, a, w, z, e, u
<1>6. v \in Seq(CallType) /\ Len(v) = 12 /\ v[12].op = "zero"
  <2>1. /\ v \in Seq(CallType) /\ Len(v) = Len(u) + Len(z)
        /\ \A i \in 1 .. Len(u) + Len(z) : v[i] = IF i <= Len(u) THEN u[i] ELSE z[i - Len(u)]
    BY <1>2, <1>3, Concatenated
  <2> HIDE DEF v
  <2>2. v[12] = z[1] BY <1>2, <1>3, <2>1
  <2> QED BY <1>2, <1>3, <2>1, <2>2
<1> HIDE DEF v
<1>7. Len(x) = 13 /\ x[12] = v[12] /\ x[13].op = "kill"
  <2>1. /\ Len(x) = Len(v) + Len(e)
        /\ \A i \in 1 .. Len(v) + Len(e) : x[i] = IF i <= Len(v) THEN v[i] ELSE e[i - Len(v)]
    BY <1>2, <1>6, Concatenated
  <2> HIDE DEF x
  <2>2. x[13] = e[1] /\ x[12] = v[12] BY <1>2, <1>6, <2>1
  <2> QED BY <1>2, <1>6, <2>1, <2>2
<1> QED BY <1>4, <1>5, <1>6, <1>7 DEF ClearOrStop

LEMMA ClearOps ==
    ASSUME NEW list, ClearOrStop(list)
    PROVE  /\ Len(list) \in {12, 13}
           /\ \A i \in {1, 7} : list[i].op = "open" /\ list[i].slot = Main
           /\ \A i \in {2, 8} : /\ list[i].op = "dup" /\ list[i].slot = Sub
                                /\ list[i + 2].name = list[i].name
           /\ \A i \in {3, 9} : list[i].op = "close" /\ list[i].slot = Main /\ list[i].name = "none"
           /\ list[4].op = "read" /\ list[4].slot = Sub /\ list[4].name = "request_count"
           /\ list[10].op = "write" /\ list[10].slot = Sub /\ list[10].name \in MgmtNames
           /\ \A i \in {5, 11} : list[i].op = "close" /\ list[i].slot = Sub /\ list[i].name = "none"
           /\ list[6].op = "add" /\ list[12].op = "zero"
           /\ Len(list) = 13 => list[13].op = "kill"
<1> USE DEF ClearOrStop
<1>1. list[1].op = "open" /\ list[1].slot = Main /\ list[7].op = "open" /\ list[7].slot = Main
  BY DEF ClearForm, Call
<1>2. /\ list[2].op = "dup" /\ list[2].slot = Sub /\ list[2].name = "request_count"
      /\ list[8].op = "dup" /\ list[8].slot = Sub /\ list[8].name = "control"
  BY DEF ClearForm, Call
<1>3. /\ list[3].op = "close" /\ list[3].slot = Main /\ list[3].name = "none"
      /\ list[9].op = "close" /\ list[9].slot = Main /\ list[9].name = "none"
  BY DEF ClearForm, Call
<1>4. /\ list[4].op = "read" /\ list[4].slot = Sub /\ list[4].name = "request_count"
      /\ list[10].op = "write" /\ list[10].slot = Sub /\ list[10].name = "control"
  BY DEF ClearForm, Call
<1>5. /\ list[5].op = "close" /\ list[5].slot = Sub /\ list[5].name = "none"
      /\ list[11].op = "close" /\ list[11].slot = Sub /\ list[11].name = "none"
  BY DEF ClearForm, Call
<1>6. list[6].op = "add" BY DEF ClearForm, Call, Do
<1>7. \A i \in {1, 7} : list[i].op = "open" /\ list[i].slot = Main BY <1>1
<1>8. \A i \in {2, 8} : /\ list[i].op = "dup" /\ list[i].slot = Sub
                        /\ list[i + 2].name = list[i].name
  BY <1>2, <1>4
<1>9. \A i \in {3, 9} : list[i].op = "close" /\ list[i].slot = Main /\ list[i].name = "none"
  BY <1>3
<1>10. \A i \in {5, 11} : list[i].op = "close" /\ list[i].slot = Sub /\ list[i].name = "none"
  BY <1>5
<1>11. list[10].name \in MgmtNames BY <1>4 DEF MgmtNames
<1>12. /\ Len(list) \in {12, 13} /\ list[12].op = "zero"
       /\ Len(list) = 13 => list[13].op = "kill"
  OBVIOUS
<1> HIDE DEF ClearOrStop
<1> QED BY <1>4, <1>6, <1>7, <1>8, <1>9, <1>10, <1>11, <1>12

LEMMA ClearOrdered ==
    ASSUME NEW list, ClearOrStop(list)
    PROVE  Shapes(list) /\ Pairs(list) /\ Named(list) /\ Taken(list) /\ Ended(list)
<1>0. Main # Sub BY LedgerAssumption
<1>1. /\ Len(list) \in {12, 13} /\ list[6].op = "add" /\ list[12].op = "zero"
      /\ Len(list) = 13 => list[13].op = "kill"
  BY ClearOps
<1>opens. \A i \in {1, 7} : list[i].op = "open" /\ list[i].slot = Main BY ClearOps
<1>dups. \A i \in {2, 8} : list[i].op = "dup" /\ list[i].slot = Sub BY ClearOps
<1>mains. \A i \in {3, 9} : list[i].op = "close" /\ list[i].slot = Main /\ list[i].name = "none"
  BY ClearOps
<1>calls. /\ list[4].op = "read" /\ list[4].slot = Sub /\ list[4].name = "request_count"
          /\ list[10].op = "write" /\ list[10].slot = Sub /\ list[10].name \in MgmtNames
  BY ClearOps
<1>subs. \A i \in {5, 11} : list[i].op = "close" /\ list[i].slot = Sub /\ list[i].name = "none"
  BY ClearOps
<1>2. \A i \in 1 .. Len(list) :
        \/ i \in {1, 7} \/ i \in {2, 8} \/ i \in {3, 9} \/ i = 4 \/ i = 10
        \/ i \in {5, 11} \/ i = 6 \/ i = 12 \/ (i = 13 /\ Len(list) = 13)
  <2>1. CASE Len(list) = 12 BY <2>1
  <2>2. CASE Len(list) = 13 BY <2>2
  <2> QED BY <1>1, <2>1, <2>2
<1>3. Shapes(list)
  <2> SUFFICES ASSUME NEW i \in 1 .. Len(list) PROVE Shape(list[i]) BY DEF Shapes
  <2>1. CASE i \in {1, 7} BY <1>opens, <2>1 DEF Shape
  <2>2. CASE i \in {2, 8} BY <1>dups, <2>2 DEF Shape
  <2>3. CASE i \in {3, 9} BY <1>mains, <2>3 DEF Shape
  <2>4. CASE i = 4 BY <1>calls, <2>4 DEF Shape, MgmtNames
  <2>5. CASE i = 10 BY <1>calls, <2>5 DEF Shape
  <2>6. CASE i \in {5, 11} BY <1>subs, <2>6 DEF Shape
  <2>7. CASE i = 6 BY <1>1, <2>7 DEF Shape, Steps
  <2>8. CASE i = 12 BY <1>1, <2>8 DEF Shape, Steps
  <2>9. CASE i = 13 /\ Len(list) = 13 BY <1>1, <2>9 DEF Shape, Steps
  <2> QED BY <1>2, <2>1, <2>2, <2>3, <2>4, <2>5, <2>6, <2>7, <2>8, <2>9
<1>4. Pairs(list)
  <2> SUFFICES ASSUME NEW i \in 1 .. Len(list) - 1 PROVE Follows(list[i], list[i + 1])
    BY DEF Pairs
  <2> DEFINE a == list[i]
             b == list[i + 1]
  <2>0. i \in 1 .. Len(list) /\ i < 13 /\ (i = 12 => Len(list) = 13)
    <3>1. CASE Len(list) = 12 BY <3>1
    <3>2. CASE Len(list) = 13 BY <3>2
    <3> QED BY <1>1, <3>1, <3>2
  <2>1. CASE i \in {1, 7}
    <3>1. i + 1 \in {2, 8} BY <2>1
    <3>2. a.op = "open" /\ a.slot = Main /\ b.op = "dup" /\ b.slot = Sub BY <1>opens, <1>dups, <2>1, <3>1
    <3> HIDE DEF a, b
    <3>3. Follows(a, b) BY <3>2 DEF Follows, Steps
    <3> QED BY <3>3 DEF a, b
  <2>2. CASE i \in {2, 8}
    <3>1. i + 1 \in {3, 9} BY <2>2
    <3>2. a.op = "dup" /\ a.slot = Sub /\ b.op = "close" /\ b.slot = Main BY <1>dups, <1>mains, <2>2, <3>1
    <3> HIDE DEF a, b
    <3>3. Follows(a, b) BY <3>2 DEF Follows, Steps
    <3> QED BY <3>3 DEF a, b
  <2>3. CASE i \in {3, 9}
    <3>1. i + 1 = 4 \/ i + 1 = 10 BY <2>3
    <3>2. a.op = "close" /\ a.slot = Main /\ b.op \in {"read", "write"} /\ b.slot = Sub
      BY <1>mains, <1>calls, <2>3, <3>1
    <3> HIDE DEF a, b
    <3>3. Follows(a, b) BY <1>0, <3>2 DEF Follows, Steps
    <3> QED BY <3>3 DEF a, b
  <2>4. CASE i = 4 \/ i = 10
    <3>1. i + 1 \in {5, 11} BY <2>4
    <3>2. a.op \in {"read", "write"} /\ a.slot = Sub /\ b.op = "close" /\ b.slot = Sub
      BY <1>calls, <1>subs, <2>4, <3>1
    <3> HIDE DEF a, b
    <3>3. Follows(a, b) BY <3>2 DEF Follows, Steps
    <3> QED BY <3>3 DEF a, b
  <2>5. CASE i \in {5, 11}
    <3>1. a.op = "close" /\ a.slot = Sub BY <1>subs, <2>5
    <3>2. i + 1 = 6 \/ i + 1 = 12 BY <2>5
    <3>3. b.op \in {"add", "zero"} BY <1>1, <3>2
    <3> HIDE DEF a, b
    <3>4. Follows(a, b) BY <1>0, <3>1, <3>3 DEF Follows, Steps
    <3> QED BY <3>4 DEF a, b
  <2>6. CASE i = 6
    <3>1. a.op = "add" /\ b.op = "open" BY <1>1, <1>opens, <2>6
    <3> HIDE DEF a, b
    <3>2. Follows(a, b) BY <3>1 DEF Follows, Steps
    <3> QED BY <3>2 DEF a, b
  <2>7. CASE i = 12
    <3>1. a.op = "zero" /\ b.op = "kill" BY <1>1, <2>0, <2>7
    <3> HIDE DEF a, b
    <3>2. Follows(a, b) BY <3>1 DEF Follows, Steps
    <3> QED BY <3>2 DEF a, b
  <2>8. ~(i = 13) BY <2>0
  <2> QED BY <1>2, <2>0, <2>1, <2>2, <2>3, <2>4, <2>5, <2>6, <2>7, <2>8
<1>5. \A i \in 1 .. Len(list) :
        /\ list[i].op = "dup" => i \in {2, 8}
        /\ list[i].op \in {"read", "write"} => i \in {4, 10}
        /\ Counting(list[i]) => i = 4
        /\ Takes(list[i]) => i = 6
        /\ list[i].op # "tell"
        /\ list[i].op \in {"run", "kill"} => i = 13 /\ Len(list) = 13
        /\ i > 11 => list[i].op \in {"zero", "kill"}
  <2> TAKE i \in 1 .. Len(list)
  <2>1. CASE i \in {1, 7} BY <1>opens, <2>1 DEF Counting, Takes
  <2>2. CASE i \in {2, 8} BY <1>dups, <2>2 DEF Counting, Takes
  <2>3. CASE i \in {3, 9} BY <1>mains, <2>3 DEF Counting, Takes
  <2>4. CASE i = 4 BY <1>calls, <2>4 DEF Counting, Takes
  <2>5. CASE i = 10 BY <1>calls, <2>5 DEF Counting, Takes
  <2>6. CASE i \in {5, 11} BY <1>subs, <2>6 DEF Counting, Takes
  <2>7. CASE i = 6 BY <1>1, <2>7 DEF Counting, Takes
  <2>8. CASE i = 12 BY <1>1, <2>8 DEF Counting, Takes
  <2>9. CASE i = 13 /\ Len(list) = 13 BY <1>1, <2>9 DEF Counting, Takes
  <2> QED BY <1>2, <2>1, <2>2, <2>3, <2>4, <2>5, <2>6, <2>7, <2>8, <2>9
<1>6. Named(list)
  <2>1. ASSUME NEW i \in 1 .. Len(list) - 2, list[i].op = "dup" PROVE list[i + 2].name = list[i].name
    <3>1. i \in 1 .. Len(list) BY <1>1
    <3>2. i \in {2, 8} BY <1>5, <2>1, <3>1
    <3> QED BY <3>2, ClearOps
  <2>2. ASSUME NEW i \in 1 .. Len(list), list[i].op \in {"read", "write"} PROVE i < Len(list)
    <3>1. i \in {4, 10} BY <1>5, <2>2
    <3> QED BY <1>1, <3>1
  <2> QED BY <2>1, <2>2 DEF Named
<1>7. Taken(list)
  <2>1. Counting(list[4]) /\ Takes(list[6]) BY <1>1, <1>calls DEF Counting, Takes
  <2>2. ASSUME NEW i \in 1 .. Len(list), Counting(list[i])
        PROVE  i + 2 <= Len(list) /\ Takes(list[i + 2])
    <3>1. i = 4 BY <1>5, <2>2
    <3> QED BY <1>1, <2>1, <3>1
  <2>3. ASSUME NEW i \in 3 .. Len(list), Takes(list[i]) PROVE Counting(list[i - 2])
    <3>1. i \in 1 .. Len(list) BY <1>1
    <3>2. i = 6 BY <1>5, <2>3, <3>1
    <3> QED BY <2>1, <3>2
  <2> QED BY <2>2, <2>3 DEF Taken
<1>8. Ended(list)
  <2>1. \A i \in 1 .. Len(list) : TotalsRead(list, i) => i = 4 BY <1>5 DEF TotalsRead, Counting
  <2>2. ASSUME NEW i \in 1 .. Len(list), NEW j \in 1 .. Len(list), TotalsRead(list, i), j > i + 7
        PROVE  list[j].op \in {"zero", "kill"}
    <3>1. i = 4 BY <2>1, <2>2
    <3>2. j > 11 BY <2>2, <3>1
    <3> QED BY <1>5, <3>2
  <2> QED BY <1>5, <2>2 DEF Ended
<1> QED BY <1>3, <1>4, <1>6, <1>7, <1>8
\* A call before a list.
LEMMA OneBefore ==
    ASSUME NEW call \in CallType, NEW rest \in Seq(CallType)
    PROVE  /\ <<call>> \o rest \in Seq(CallType) /\ <<call>> \o rest # <<>>
           /\ Len(<<call>> \o rest) = Len(rest) + 1
           /\ (<<call>> \o rest)[1] = call
           /\ \A i \in 1 .. Len(rest) : (<<call>> \o rest)[i + 1] = rest[i]
           /\ Tail(<<call>> \o rest) = rest
<1> DEFINE one == <<call>>
           list == one \o rest
<1>1. one \in Seq(CallType) /\ Len(one) = 1 /\ one[1] = call OBVIOUS
<1>2. list = one \o rest OBVIOUS
<1> HIDE DEF one, list
<1>3. /\ list \in Seq(CallType) /\ Len(rest) \in Nat /\ Len(list) = 1 + Len(rest)
      /\ \A i \in 1 .. 1 + Len(rest) : list[i] = IF i <= 1 THEN one[i] ELSE rest[i - 1]
  BY <1>1, <1>2, Concatenated
<1>4. list[1] = call BY <1>1, <1>3
<1>5. \A i \in 1 .. Len(rest) : list[i + 1] = rest[i]
  <2> TAKE i \in 1 .. Len(rest)
  <2>1. i + 1 \in 1 .. 1 + Len(rest) /\ ~(i + 1 <= 1) /\ (i + 1) - 1 = i BY <1>3
  <2> QED BY <1>3, <2>1
<1>6. list # <<>>
  <2>1. list = <<>> => Len(list) = 0 OBVIOUS
  <2> QED BY <1>3, <2>1
<1>7. /\ Tail(list) \in Seq(CallType) /\ Len(Tail(list)) = Len(rest)
      /\ \A i \in 1 .. Len(rest) : Tail(list)[i] = rest[i]
  <2> DEFINE t == Tail(list)
  <2>1. /\ t \in Seq(CallType) /\ Len(t) = Len(list) - 1
        /\ \A i \in 1 .. Len(list) - 1 : t[i] = list[i + 1]
    BY <1>3, <1>6, TailValues
  <2> HIDE DEF t
  <2>2. Len(list) - 1 = Len(rest) BY <1>3
  <2>3. \A i \in 1 .. Len(rest) : t[i] = rest[i] BY <1>5, <2>1, <2>2
  <2>4. Len(t) = Len(rest) BY <2>1, <2>2
  <2> QED BY <2>1, <2>3, <2>4 DEF t
<1>8. Tail(list) = rest BY <1>7, SeqEqual
<1> QED BY <1>3, <1>4, <1>5, <1>6, <1>8 DEF list, one

\* A spawn, and the calls of start().
LEMMA SpawnOps ==
    ASSUME NEW list, list = <<Do("spawn")>> \o StartCalls
    PROVE  /\ list \in Seq(CallType) /\ Len(list) = 5 /\ Tail(list) = StartCalls
           /\ list[1].op = "spawn"
           /\ list[2].op = "open" /\ list[2].slot = ChildScheme
           /\ list[3].op = "dup" /\ list[3].slot = PidScheme
           /\ list[4].op = "read" /\ list[4].slot = PidScheme /\ list[4].name = "pid"
           /\ list[5].op = "run"
<1> DEFINE z == Do("spawn")
           a == Call("open", ChildScheme, "none")
           b == Call("dup", PidScheme, "pid")
           c == Call("read", PidScheme, "pid")
           d == Do("run")
<1>1. {z, a, b, c, d} \subseteq CallType
  BY LedgerAssumption DEF Kept, Do, CallType, CallOps, MgmtNames, Call
<1>2. /\ z.op = "spawn" /\ a.op = "open" /\ a.slot = ChildScheme /\ b.op = "dup" /\ b.slot = PidScheme
      /\ c.op = "read" /\ c.slot = PidScheme /\ c.name = "pid" /\ d.op = "run"
  BY DEF Call, Do
<1> DEFINE rest == <<a, b, c, d>>
<1>3. list = <<z>> \o rest /\ StartCalls = rest BY DEF StartCalls
<1> HIDE DEF z, a, b, c, d
<1>4. /\ rest \in Seq(CallType) /\ Len(rest) = 4
      /\ rest[1] = a /\ rest[2] = b /\ rest[3] = c /\ rest[4] = d
  BY <1>1
<1> HIDE DEF rest
<1>5. /\ list \in Seq(CallType) /\ Len(list) = Len(rest) + 1
      /\ list[1] = z /\ \A i \in 1 .. Len(rest) : list[i + 1] = rest[i]
      /\ Tail(list) = rest
  <2>1. z \in CallType BY <1>1
  <2>2. rest \in Seq(CallType) BY <1>4
  <2>3. /\ <<z>> \o rest \in Seq(CallType) /\ Len(<<z>> \o rest) = Len(rest) + 1
        /\ (<<z>> \o rest)[1] = z
        /\ \A i \in 1 .. Len(rest) : (<<z>> \o rest)[i + 1] = rest[i]
        /\ Tail(<<z>> \o rest) = rest
    BY <2>1, <2>2, OneBefore, Zenon
  <2> QED BY <1>3, <2>3
<1>6. list[2] = a /\ list[3] = b /\ list[4] = c /\ list[5] = d BY <1>4, <1>5
<1> QED BY <1>2, <1>3, <1>4, <1>5, <1>6

LEMMA SpawnOrdered ==
    /\ Ordered(<<Do("spawn")>> \o StartCalls)
    /\ Ordered(StartCalls)
<1> DEFINE list == <<Do("spawn")>> \o StartCalls
<1>0. {Main, Sub} \cap {ChildScheme, PidScheme} = {} BY LedgerAssumption
<1>1. CallsInOrder(list) BY CommandsInOrder, PlainInOrder, PlainParts, PlainTogether
<1>2. /\ list \in Seq(CallType) /\ Len(list) = 5 /\ Tail(list) = StartCalls
      /\ list[1].op = "spawn"
      /\ list[2].op = "open" /\ list[2].slot = ChildScheme
      /\ list[3].op = "dup" /\ list[3].slot = PidScheme
      /\ list[4].op = "read" /\ list[4].slot = PidScheme /\ list[4].name = "pid"
      /\ list[5].op = "run"
  BY SpawnOps
<1> HIDE DEF list
<1>3. 1 .. Len(list) = {1, 2, 3, 4, 5} /\ 1 .. Len(list) - 1 = {1, 2, 3, 4} BY <1>2
<1>4. Shapes(list) BY <1>2, <1>3 DEF Shapes, Shape, Steps
<1>5. Pairs(list)
  <2>1. Follows(list[1], list[2]) BY <1>2 DEF Follows, Steps
  <2>2. Follows(list[2], list[3]) BY <1>0, <1>2 DEF Follows, Steps
  <2>3. Follows(list[3], list[4]) BY <1>0, <1>2 DEF Follows, Steps
  <2>4. Follows(list[4], list[5]) BY <1>0, <1>2 DEF Follows, Steps
  <2> QED BY <1>3, <2>1, <2>2, <2>3, <2>4 DEF Pairs
<1>6. \A i \in 1 .. Len(list) :
        /\ ~(list[i].op = "dup" /\ list[i].slot = Sub)
        /\ ~(list[i].op \in {"read", "write"} /\ list[i].slot = Sub)
        /\ ~Counting(list[i]) /\ ~Takes(list[i])
        /\ list[i].op \notin {"zero", "kill", "tell", "add"}
        /\ list[i].op = "run" => i = 5
  BY <1>0, <1>2, <1>3 DEF Counting, Takes
<1>7. Named(list)
  <2>1. \A i \in 1 .. Len(list) - 2 : i \in 1 .. Len(list) BY <1>2
  <2> QED BY <1>6, <2>1 DEF Named
<1>8. Taken(list)
  <2>1. \A i \in 3 .. Len(list) : i \in 1 .. Len(list) BY <1>2
  <2> QED BY <1>6, <2>1 DEF Taken
<1>9. Ended(list)
  <2>1. \A i \in 1 .. Len(list) : ~TotalsRead(list, i) BY <1>6 DEF TotalsRead, Counting
  <2> QED BY <1>2, <1>6, <2>1 DEF Ended
<1>10. Ordered(list) BY <1>1, <1>4, <1>5, <1>7, <1>8, <1>9 DEF Ordered
<1>11. list # <<>>
  <2>1. list = <<>> => Len(list) = 0 OBVIOUS
  <2> QED BY <1>2, <2>1
<1>12. Ordered(StartCalls) BY <1>2, <1>10, <1>11, TailOrdered
<1> QED BY <1>10, <1>12 DEF list

LEMMA TellOrdered == Ordered(<<Do("tell")>>)
<1> DEFINE list == <<Do("tell")>>
<1>1. list \in Seq(CallType) /\ Len(list) = 1 /\ list[1].op = "tell" BY OneStep DEF CallOps
<1>2. CallsInOrder(list) BY PlainInOrder, PlainParts
<1> HIDE DEF list
<1>3. \A i \in 1 .. Len(list) : i = 1 /\ list[i].op = "tell" BY <1>1
<1>4. Shapes(list) BY <1>3 DEF Shapes, Shape, Steps
<1>5. Pairs(list) BY <1>1 DEF Pairs
<1>6. Named(list) BY <1>1, <1>3 DEF Named
<1>7. Taken(list) BY <1>1, <1>3 DEF Taken, Counting
<1>8. Ended(list) BY <1>1, <1>3 DEF Ended, TotalsRead
<1>9. Ordered(list) BY <1>2, <1>4, <1>5, <1>6, <1>7, <1>8 DEF Ordered
<1> QED BY <1>9 DEF list

\* So every command keeps the order.
LEMMA CommandsOrdered == Ordered(StartCalls) /\ \A list \in Commands : Ordered(list)
<1>1. Ordered(UpdateCalls) /\ Ordered(UpdateCalls \o <<Do("tell")>>)
  <2>0. {"message", "request_count", "time_stamp"} \subseteq MgmtNames BY DEF MgmtNames
  <2>1. Plain(UpdateCalls) BY <2>0, PlainParts, PlainTogether DEF UpdateCalls
  <2>2. Plain(UpdateCalls \o <<Do("tell")>>) BY <2>1, PlainParts, PlainTogether
  <2>3. CallsInOrder(UpdateCalls) /\ CallsInOrder(UpdateCalls \o <<Do("tell")>>)
    BY <2>1, <2>2, PlainInOrder
  <2> QED BY <2>3, UpdateFront, UpdateOrdered DEF Ordered
<1>2. ASSUME NEW list, ClearOrStop(list) PROVE Ordered(list)
  BY <1>2, ClearOrdered, ClearInOrder DEF Ordered, ClearOrStop
<1>3. Ordered(ClearCalls) /\ Ordered(ClearCalls \o <<Do("kill")>>) BY <1>2, ClearEnds
<1> QED BY <1>1, <1>3, SpawnOrdered, TellOrdered DEF Commands
-----------------------------------------------------------------------------
(* The calls after a timeout: those of recover(), the helper from its      *)
(* beginning, and what was left.                                           *)

AgainForm(list, old) ==
    /\ list \in Seq(CallType) /\ Len(list) = Len(old) + 11
    /\ list[1] = Call("open", ChildScheme, "none") /\ list[2] = Call("dup", PidScheme, "pid")
    /\ list[3] = Call("read", PidScheme, "pid")
    /\ list[4] = Call("open", Main, "none") /\ list[5] = Call("dup", Sub, "pid")
    /\ list[6] = Call("close", Main, "none") /\ list[7] = Call("read", Sub, "pid")
    /\ list[8] = Call("close", Sub, "none")
    /\ list[9] = Call("open", Main, "none") /\ list[10] = Call("dup", Sub, old[1].name)
    /\ list[11] = Call("close", Main, "none")
    /\ \A i \in 12 .. Len(list) : list[i] = old[i - 11]

LEMMA RecoverValues ==
    /\ RecoverCalls \in Seq(CallType) /\ Len(RecoverCalls) = 8
    /\ RecoverCalls[1] = Call("open", ChildScheme, "none")
    /\ RecoverCalls[2] = Call("dup", PidScheme, "pid")
    /\ RecoverCalls[3] = Call("read", PidScheme, "pid")
    /\ RecoverCalls[4] = Call("open", Main, "none") /\ RecoverCalls[5] = Call("dup", Sub, "pid")
    /\ RecoverCalls[6] = Call("close", Main, "none") /\ RecoverCalls[7] = Call("read", Sub, "pid")
    /\ RecoverCalls[8] = Call("close", Sub, "none")
<1> DEFINE a == Call("open", ChildScheme, "none")
           b == Call("dup", PidScheme, "pid")
           c == Call("read", PidScheme, "pid")
           f == <<a, b, c>>
           h == Helper("read", "pid")
           r == f \o h
<1>1. {a, b, c} \subseteq CallType BY LedgerAssumption DEF Kept, CallType, CallOps, MgmtNames, Call
<1>2. /\ h \in Seq(CallType) /\ Len(h) = 5
      /\ h[1] = Call("open", Main, "none") /\ h[2] = Call("dup", Sub, "pid")
      /\ h[3] = Call("close", Main, "none") /\ h[4] = Call("read", Sub, "pid")
      /\ h[5] = Call("close", Sub, "none")
  BY HelperValues DEF MgmtNames
<1>3. r = RecoverCalls BY DEF RecoverCalls
<1> HIDE DEF a, b, c, h
<1>4. f \in Seq(CallType) /\ Len(f) = 3 /\ f[1] = a /\ f[2] = b /\ f[3] = c BY <1>1
<1> HIDE DEF f
<1>5. /\ r \in Seq(CallType) /\ Len(r) = Len(f) + Len(h)
      /\ \A i \in 1 .. Len(f) + Len(h) : r[i] = IF i <= Len(f) THEN f[i] ELSE h[i - Len(f)]
  BY <1>2, <1>4, Concatenated
<1> HIDE DEF r
<1>6. Len(r) = 8 /\ \A i \in 1 .. 8 : r[i] = IF i <= 3 THEN f[i] ELSE h[i - 3]
  BY <1>2, <1>4, <1>5
<1>7. /\ r[1] = f[1] /\ r[2] = f[2] /\ r[3] = f[3] /\ r[4] = h[1] /\ r[5] = h[2]
      /\ r[6] = h[3] /\ r[7] = h[4] /\ r[8] = h[5]
  BY <1>6
<1> QED BY <1>2, <1>3, <1>4, <1>5, <1>6, <1>7 DEF a, b, c

\* The first two of the calls that were left.
LEMMA HelperLeft ==
    ASSUME NEW old, Ordered(old), old # <<>>,
           old[1].op \in {"read", "write"}, old[1].name # "pid"
    PROVE  /\ old \in Seq(CallType) /\ Len(old) \in Nat /\ Len(old) >= 2
           /\ old[1].op \in {"read", "write"} /\ old[1].name \in MgmtNames
           /\ old[1] = Call(old[1].op, Sub, old[1].name)
           /\ old[2] = Call("close", Sub, "none")
<1>1. old \in Seq(CallType) /\ Len(old) \in Nat \ {0} /\ old[1] \in CallType
  BY TailValues DEF Ordered, CallsInOrder
<1>2. old[1].slot = Sub /\ old[1].name \in MgmtNames
  <2>1. Shape(old[1]) BY <1>1 DEF Ordered, Shapes
  <2> QED BY <2>1 DEF Shape, Steps
<1>3. 1 < Len(old) BY <1>1, <1>2 DEF Ordered, Named
<1>4. old[2] \in CallType BY <1>1, <1>3
<1>5. old[2].op = "close" /\ old[2].slot = Sub
  <2>1. Follows(old[1], old[2]) BY <1>1, <1>3 DEF Ordered, Pairs
  <2> QED BY <1>2, <2>1 DEF Follows
<1>6. old[2].name = "none"
  <2>1. Shape(old[2]) BY <1>1, <1>3 DEF Ordered, Shapes
  <2> QED BY <1>5, <2>1 DEF Shape, Steps
<1>7. old[1] = Call(old[1].op, Sub, old[1].name)
  BY <1>1, <1>2 DEF CallType, Call
<1>8. old[2] = Call("close", Sub, "none") BY <1>4, <1>5, <1>6 DEF CallType, Call
<1> QED BY <1>1, <1>2, <1>3, <1>7, <1>8

LEMMA AgainFront ==
    ASSUME NEW old, Ordered(old), old # <<>>,
           old[1].op \in {"read", "write"}, old[1].name # "pid"
    PROVE  AgainForm(RecoverCalls \o Helper(old[1].op, old[1].name) \o Tail(Tail(old)), old)
<1> DEFINE op == old[1].op
           name == old[1].name
           r == RecoverCalls
           h == Helper(op, name)
           q == r \o h
           t == Tail(Tail(old))
           list == q \o t
<1>1. /\ old \in Seq(CallType) /\ Len(old) \in Nat /\ Len(old) >= 2
      /\ op \in {"read", "write"} /\ name \in MgmtNames
      /\ old[1] = Call(op, Sub, name) /\ old[2] = Call("close", Sub, "none")
  BY HelperLeft
<1>2. /\ t \in Seq(CallType) /\ Len(t) = Len(old) - 2
      /\ \A i \in 1 .. Len(old) - 2 : t[i] = old[i + 2]
  <2> DEFINE one == Tail(old)
  <2>1. /\ one \in Seq(CallType) /\ Len(one) = Len(old) - 1
        /\ \A i \in 1 .. Len(old) - 1 : one[i] = old[i + 1]
    BY <1>1, TailValues
  <2>2. t = Tail(one) OBVIOUS
  <2> HIDE DEF one
  <2>3. one # <<>>
    <3>1. one = <<>> => Len(one) = 0 OBVIOUS
    <3> QED BY <1>1, <2>1, <3>1
  <2>4. /\ t \in Seq(CallType) /\ Len(t) = Len(one) - 1
        /\ \A i \in 1 .. Len(one) - 1 : t[i] = one[i + 1]
    BY <2>1, <2>2, <2>3, TailValues
  <2> HIDE DEF t
  <2>5. ASSUME NEW i \in 1 .. Len(old) - 2 PROVE t[i] = old[i + 2]
    <3>1. i \in 1 .. Len(one) - 1 /\ i + 1 \in 1 .. Len(old) - 1 /\ (i + 1) + 1 = i + 2
      BY <1>1, <2>1
    <3> QED BY <2>1, <2>4, <3>1
  <2> QED BY <1>1, <2>1, <2>4, <2>5
<1>3. /\ h \in Seq(CallType) /\ Len(h) = 5
      /\ h[1] = Call("open", Main, "none") /\ h[2] = Call("dup", Sub, name)
      /\ h[3] = Call("close", Main, "none") /\ h[4] = Call(op, Sub, name)
      /\ h[5] = Call("close", Sub, "none")
  <2> HIDE DEF op, name
  <2> QED BY <1>1, HelperValues
<1>4. r \in Seq(CallType) /\ Len(r) = 8 BY RecoverValues
<1> HIDE DEF op, name, r, h, t
<1>5. q \in Seq(CallType) /\ Len(q) = 13 /\ \A i \in 1 .. 13 : q[i] = IF i <= 8 THEN r[i] ELSE h[i - 8]
  <2>1. /\ q \in Seq(CallType) /\ Len(q) = Len(r) + Len(h)
        /\ \A i \in 1 .. Len(r) + Len(h) : q[i] = IF i <= Len(r) THEN r[i] ELSE h[i - Len(r)]
    BY <1>3, <1>4, Concatenated
  <2> HIDE DEF q
  <2> QED BY <1>3, <1>4, <2>1
<1> HIDE DEF q
<1>6. /\ list \in Seq(CallType) /\ Len(list) = Len(old) + 11
      /\ \A i \in 1 .. Len(old) + 11 : list[i] = IF i <= 13 THEN q[i] ELSE t[i - 13]
  <2>1. /\ list \in Seq(CallType) /\ Len(list) = Len(q) + Len(t)
        /\ \A i \in 1 .. Len(q) + Len(t) : list[i] = IF i <= Len(q) THEN q[i] ELSE t[i - Len(q)]
    BY <1>2, <1>5, Concatenated
  <2> HIDE DEF list
  <2>2. Len(q) + Len(t) = Len(old) + 11 BY <1>1, <1>2, <1>5
  <2> QED BY <1>5, <2>1, <2>2
<1>7. list = RecoverCalls \o Helper(old[1].op, old[1].name) \o Tail(Tail(old))
  BY DEF list, q, r, h, t, op, name
<1> HIDE DEF list
<1>8. \A i \in 1 .. 13 : list[i] = q[i]
  <2>1. \A i \in 1 .. 13 : i \in 1 .. Len(old) + 11 /\ i <= 13 BY <1>1
  <2> QED BY <1>6, <2>1
<1>9. /\ list[1] = r[1] /\ list[2] = r[2] /\ list[3] = r[3] /\ list[4] = r[4] /\ list[5] = r[5]
      /\ list[6] = r[6] /\ list[7] = r[7] /\ list[8] = r[8]
  BY <1>5, <1>8
<1>10. /\ list[9] = h[1] /\ list[10] = h[2] /\ list[11] = h[3] /\ list[12] = h[4]
       /\ list[13] = h[5]
  BY <1>5, <1>8
<1>11. ASSUME NEW i \in 12 .. Len(list) PROVE list[i] = old[i - 11]
  <2>1. CASE i = 12 BY <1>1, <1>3, <1>10, <2>1
  <2>2. CASE i = 13 BY <1>1, <1>3, <1>10, <2>2
  <2>3. CASE i > 13
    <3>1. i - 13 \in 1 .. Len(old) - 2 /\ (i - 13) + 2 = i - 11 /\ i \in 1 .. Len(old) + 11
      BY <1>1, <1>6, <2>3
    <3>2. list[i] = t[i - 13] BY <1>6, <2>3, <3>1
    <3> QED BY <1>2, <3>1, <3>2
  <2> QED BY <2>1, <2>2, <2>3
<1>12. AgainForm(list, old)
  BY <1>3, <1>6, <1>9, <1>10, <1>11, RecoverValues DEF AgainForm, r, name
<1> QED BY <1>7, <1>12
LEMMA AgainOps ==
    ASSUME NEW list, NEW old, Len(old) \in Nat, AgainForm(list, old)
    PROVE  /\ list[1].op = "open" /\ list[1].slot = ChildScheme
           /\ list[2].op = "dup" /\ list[2].slot = PidScheme /\ list[2].name = "pid"
           /\ list[3].op = "read" /\ list[3].slot = PidScheme /\ list[3].name = "pid"
           /\ \A i \in {4, 9} : list[i].op = "open" /\ list[i].slot = Main
           /\ \A i \in {5, 10} : list[i].op = "dup" /\ list[i].slot = Sub
           /\ list[5].name = "pid" /\ list[10].name = old[1].name
           /\ \A i \in {6, 11} : list[i].op = "close" /\ list[i].slot = Main /\ list[i].name = "none"
           /\ list[7].op = "read" /\ list[7].slot = Sub /\ list[7].name = "pid"
           /\ list[8].op = "close" /\ list[8].slot = Sub /\ list[8].name = "none"
<1>1. list[1].op = "open" /\ list[1].slot = ChildScheme BY DEF AgainForm, Call
<1>2. list[2].op = "dup" /\ list[2].slot = PidScheme /\ list[2].name = "pid" BY DEF AgainForm, Call
<1>3. list[3].op = "read" /\ list[3].slot = PidScheme /\ list[3].name = "pid" BY DEF AgainForm, Call
<1>4. list[4].op = "open" /\ list[4].slot = Main /\ list[9].op = "open" /\ list[9].slot = Main
  BY DEF AgainForm, Call
<1>5. /\ list[5].op = "dup" /\ list[5].slot = Sub /\ list[10].op = "dup" /\ list[10].slot = Sub
      /\ list[5].name = "pid" /\ list[10].name = old[1].name
  BY DEF AgainForm, Call
<1>6. /\ list[6].op = "close" /\ list[6].slot = Main /\ list[6].name = "none"
      /\ list[11].op = "close" /\ list[11].slot = Main /\ list[11].name = "none"
  BY DEF AgainForm, Call
<1>7. list[7].op = "read" /\ list[7].slot = Sub /\ list[7].name = "pid" BY DEF AgainForm, Call
<1>8. list[8].op = "close" /\ list[8].slot = Sub /\ list[8].name = "none" BY DEF AgainForm, Call
<1>9. \A i \in {4, 9} : list[i].op = "open" /\ list[i].slot = Main BY <1>4
<1>10. \A i \in {5, 10} : list[i].op = "dup" /\ list[i].slot = Sub BY <1>5
<1>11. \A i \in {6, 11} : list[i].op = "close" /\ list[i].slot = Main /\ list[i].name = "none"
  BY <1>6
<1> QED BY <1>1, <1>2, <1>3, <1>5, <1>7, <1>8, <1>9, <1>10, <1>11

LEMMA AgainOrdered ==
    ASSUME NEW old, Ordered(old), old # <<>>,
           old[1].op \in {"read", "write"}, old[1].name # "pid",
           NEW list, AgainForm(list, old)
    PROVE  Ordered(list) /\ (WritesFollow(old) => WritesFollow(list))
<1>0. /\ Main # Sub /\ {Main, Sub} \cap {ChildScheme, PidScheme} = {} /\ Kept \subseteq Slots
  BY LedgerAssumption
<1>1. /\ old \in Seq(CallType) /\ Len(old) \in Nat /\ Len(old) >= 2
      /\ old[1].slot = Sub /\ old[1].name \in MgmtNames
      /\ old[2].op = "close"
  <2>1. /\ old \in Seq(CallType) /\ Len(old) \in Nat /\ Len(old) >= 2
        /\ old[1].name \in MgmtNames
        /\ old[1] = Call(old[1].op, Sub, old[1].name) /\ old[2] = Call("close", Sub, "none")
    BY HelperLeft
  <2>2. Call(old[1].op, Sub, old[1].name).slot = Sub /\ Call("close", Sub, "none").op = "close"
    BY DEF Call
  <2> QED BY <2>1, <2>2
<1>2. /\ list[1].op = "open" /\ list[1].slot = ChildScheme
      /\ list[2].op = "dup" /\ list[2].slot = PidScheme /\ list[2].name = "pid"
      /\ list[3].op = "read" /\ list[3].slot = PidScheme /\ list[3].name = "pid"
      /\ \A i \in {4, 9} : list[i].op = "open" /\ list[i].slot = Main
      /\ \A i \in {5, 10} : list[i].op = "dup" /\ list[i].slot = Sub
      /\ list[5].name = "pid" /\ list[10].name = old[1].name
      /\ \A i \in {6, 11} : list[i].op = "close" /\ list[i].slot = Main /\ list[i].name = "none"
      /\ list[7].op = "read" /\ list[7].slot = Sub /\ list[7].name = "pid"
      /\ list[8].op = "close" /\ list[8].slot = Sub /\ list[8].name = "none"
  BY <1>1, AgainOps
<1>3. /\ list \in Seq(CallType) /\ Len(list) = Len(old) + 11
      /\ \A i \in 12 .. Len(list) : list[i] = old[i - 11]
  BY DEF AgainForm
<1>4. \A i \in 1 .. Len(list) :
        \/ i \in {1, 2, 3} \/ i \in {4, 9} \/ i \in {5, 10} \/ i \in {6, 11} \/ i \in {7, 8}
        \/ i \in 12 .. Len(list)
  BY <1>1, <1>3
<1>5. \A i \in 12 .. Len(list) : i - 11 \in 1 .. Len(old) BY <1>1, <1>3
<1>6. \A i \in 1 .. Len(list) : i \notin 12 .. Len(list) =>
        /\ list[i].op \in {"open", "dup", "read", "close"}
        /\ list[i].op = "read" => list[i].name = "pid"
  <2> TAKE i \in 1 .. Len(list)
  <2> HAVE i \notin 12 .. Len(list)
  <2>1. CASE i \in {1, 2, 3} BY <1>2, <2>1
  <2>2. CASE i \in {4, 9} BY <1>2, <2>2
  <2>3. CASE i \in {5, 10} BY <1>2, <2>3
  <2>4. CASE i \in {6, 11} BY <1>2, <2>4
  <2>5. CASE i \in {7, 8} BY <1>2, <2>5
  <2> QED BY <1>4, <2>1, <2>2, <2>3, <2>4, <2>5
<1>7. \A i \in 1 .. Len(list) : list[i].op \notin {"open", "dup", "read", "close"} =>
        i \in 12 .. Len(list) /\ i - 11 \in 1 .. Len(old) /\ list[i] = old[i - 11]
  BY <1>3, <1>5, <1>6
<1>8. \A i \in 1 .. Len(list) : TotalsRead(list, i) =>
        i \in 12 .. Len(list) /\ TotalsRead(old, i - 11)
  <2> TAKE i \in 1 .. Len(list)
  <2> HAVE TotalsRead(list, i)
  <2>1. i \in 1 .. Len(list) - 2 /\ list[i].op = "read" /\ list[i].name = "request_count"
        /\ list[i + 2].op = "add"
    BY DEF TotalsRead
  <2>2. i \in 12 .. Len(list) BY <1>6, <2>1
  <2>3. i + 2 \in 12 .. Len(list) /\ (i + 2) - 11 = (i - 11) + 2 BY <1>1, <1>3, <2>1, <2>2
  <2>4. i - 11 \in 1 .. Len(old) - 2 BY <1>1, <1>3, <2>1, <2>2
  <2> QED BY <1>3, <2>1, <2>2, <2>3, <2>4 DEF TotalsRead
<1>9. CallsInOrder(list)
  <2>1. ASSUME NEW i \in 1 .. Len(list)
        PROVE  /\ list[i].op = "open" => list[i].slot \in {Main, ChildScheme}
               /\ list[i].op = "dup" => list[i].slot \in {Sub, PidScheme}
               /\ list[i].op = "dup" => list[i].name \in MgmtNames
               /\ list[i].op \in {"read", "write", "close"} => list[i].slot \in Slots
    <3>1. CASE i \in {1, 2, 3} BY <1>0, <1>2, <3>1 DEF Kept, MgmtNames
    <3>2. CASE i \in {4, 9} BY <1>2, <3>2
    <3>3. CASE i = 5 BY <1>2, <3>3 DEF MgmtNames
    <3>4. CASE i = 10 BY <1>1, <1>2, <3>4
    <3>5. CASE i \in {6, 11} BY <1>0, <1>2, <3>5 DEF Kept
    <3>6. CASE i \in {7, 8} BY <1>0, <1>2, <3>6 DEF Kept
    <3>7. CASE i \in 12 .. Len(list)
      <4>1. list[i] = old[i - 11] /\ i - 11 \in 1 .. Len(old) BY <1>3, <1>5, <3>7
      <4> QED BY <4>1 DEF Ordered, CallsInOrder
    <3> QED BY <1>4, <3>1, <3>2, <3>3, <3>4, <3>5, <3>6, <3>7
  <2>2. ASSUME NEW i \in 1 .. Len(list), TotalsRead(list, i)
        PROVE  /\ i + 7 <= Len(list)
               /\ \A j \in 1 .. 7 : list[i + j] = ClearTail[j]
               /\ \A j \in 1 .. Len(list) : list[j].op = "write" => j = i + 6
    <3>1. i \in 12 .. Len(list) /\ i - 11 \in 1 .. Len(old) /\ TotalsRead(old, i - 11)
      BY <1>5, <1>8, <2>2
    <3>2. /\ (i - 11) + 7 <= Len(old)
          /\ \A j \in 1 .. 7 : old[(i - 11) + j] = ClearTail[j]
          /\ \A j \in 1 .. Len(old) : old[j].op = "write" => j = (i - 11) + 6
      BY <3>1 DEF Ordered, CallsInOrder
    <3>3. i + 7 <= Len(list)
      <4>1. i \in Nat /\ Len(old) \in Nat /\ Len(list) = Len(old) + 11 BY <1>1, <1>3
      <4>2. (i - 11) + 7 <= Len(old) BY <3>2
      <4> QED BY <4>1, <4>2
    <3>4. ASSUME NEW j \in 1 .. 7 PROVE list[i + j] = ClearTail[j]
      <4>1. i + j \in 12 .. Len(list) /\ (i + j) - 11 = (i - 11) + j BY <1>1, <1>3, <3>1, <3>3
      <4> QED BY <1>3, <3>2, <4>1
    <3>5. ASSUME NEW j \in 1 .. Len(list), list[j].op = "write" PROVE j = i + 6
      <4>1. j \in 12 .. Len(list) /\ j - 11 \in 1 .. Len(old) /\ list[j] = old[j - 11]
        BY <1>7, <3>5
      <4>2. j - 11 = (i - 11) + 6 BY <3>2, <3>5, <4>1
      <4> QED BY <3>1, <4>1, <4>2
    <3> QED BY <3>3, <3>4, <3>5
  <2> HIDE DEF ClearTail
  <2> QED BY <1>3, <2>1, <2>2 DEF CallsInOrder
<1>10. Shapes(list)
  <2> SUFFICES ASSUME NEW i \in 1 .. Len(list) PROVE Shape(list[i]) BY DEF Shapes
  <2>1. CASE i \in {1, 2, 3} BY <1>2, <2>1 DEF Shape
  <2>2. CASE i \in {4, 9} BY <1>2, <2>2 DEF Shape
  <2>3. CASE i \in {5, 10} BY <1>2, <2>3 DEF Shape
  <2>4. CASE i \in {6, 11} BY <1>2, <2>4 DEF Shape
  <2>5. CASE i \in {7, 8} BY <1>2, <2>5 DEF Shape, MgmtNames
  <2>6. CASE i \in 12 .. Len(list)
    <3>1. list[i] = old[i - 11] /\ i - 11 \in 1 .. Len(old) BY <1>3, <1>5, <2>6
    <3> QED BY <3>1 DEF Ordered, Shapes
  <2> QED BY <1>4, <2>1, <2>2, <2>3, <2>4, <2>5, <2>6
<1>11. Pairs(list)
  <2> SUFFICES ASSUME NEW i \in 1 .. Len(list) - 1 PROVE Follows(list[i], list[i + 1])
    BY DEF Pairs
  <2> DEFINE a == list[i]
             b == list[i + 1]
  <2>0. i \in 1 .. Len(list) BY <1>1, <1>3
  <2>1. CASE i = 1
    <3>1. a.op = "open" /\ a.slot = ChildScheme /\ b.op = "dup" /\ b.slot = PidScheme BY <1>2, <2>1
    <3> HIDE DEF a, b
    <3>2. Follows(a, b) BY <1>0, <3>1 DEF Follows, Steps
    <3> QED BY <3>2 DEF a, b
  <2>2. CASE i = 2
    <3>1. a.op = "dup" /\ a.slot = PidScheme /\ b.op = "read" /\ b.slot = PidScheme BY <1>2, <2>2
    <3> HIDE DEF a, b
    <3>2. Follows(a, b) BY <1>0, <3>1 DEF Follows, Steps
    <3> QED BY <3>2 DEF a, b
  <2>3. CASE i = 3
    <3>1. a.op = "read" /\ a.slot = PidScheme /\ b.op = "open" BY <1>2, <2>3
    <3> HIDE DEF a, b
    <3>2. Follows(a, b) BY <1>0, <3>1 DEF Follows, Steps
    <3> QED BY <3>2 DEF a, b
  <2>4. CASE i \in {4, 9}
    <3>1. i + 1 \in {5, 10} BY <2>4
    <3>2. a.op = "open" /\ a.slot = Main /\ b.op = "dup" /\ b.slot = Sub BY <1>2, <2>4, <3>1
    <3> HIDE DEF a, b
    <3>3. Follows(a, b) BY <3>2 DEF Follows, Steps
    <3> QED BY <3>3 DEF a, b
  <2>5. CASE i \in {5, 10}
    <3>1. i + 1 \in {6, 11} BY <2>5
    <3>2. a.op = "dup" /\ a.slot = Sub /\ b.op = "close" /\ b.slot = Main BY <1>2, <2>5, <3>1
    <3> HIDE DEF a, b
    <3>3. Follows(a, b) BY <3>2 DEF Follows, Steps
    <3> QED BY <3>3 DEF a, b
  <2>6. CASE i \in {6, 11}
    <3>1. a.op = "close" /\ a.slot = Main BY <1>2, <2>6
    <3>2. b.op \in {"read", "write"} /\ b.slot = Sub
      <4>1. CASE i = 6 BY <1>2, <4>1
      <4>2. CASE i = 11
        <5>1. list[12] = old[1] BY <1>1, <1>3
        <5> QED BY <1>1, <4>2, <5>1
      <4> QED BY <2>6, <4>1, <4>2
    <3> HIDE DEF a, b
    <3>3. Follows(a, b) BY <1>0, <3>1, <3>2 DEF Follows, Steps
    <3> QED BY <3>3 DEF a, b
  <2>7. CASE i = 7
    <3>1. a.op = "read" /\ a.slot = Sub /\ b.op = "close" /\ b.slot = Sub BY <1>2, <2>7
    <3> HIDE DEF a, b
    <3>2. Follows(a, b) BY <3>1 DEF Follows, Steps
    <3> QED BY <3>2 DEF a, b
  <2>8. CASE i = 8
    <3>1. a.op = "close" /\ a.slot = Sub /\ b.op = "open" BY <1>2, <2>8
    <3> HIDE DEF a, b
    <3>2. Follows(a, b) BY <1>0, <3>1 DEF Follows, Steps
    <3> QED BY <3>2 DEF a, b
  <2>9. CASE i \in 12 .. Len(list)
    <3>1. /\ i - 11 \in 1 .. Len(old) - 1 /\ i + 1 \in 12 .. Len(list)
          /\ (i + 1) - 11 = (i - 11) + 1
      BY <1>1, <1>3, <2>9
    <3>2. list[i] = old[i - 11] /\ list[i + 1] = old[(i - 11) + 1] BY <1>3, <2>9, <3>1
    <3> QED BY <3>1, <3>2 DEF Ordered, Pairs
  <2> QED BY <1>4, <2>0, <2>1, <2>2, <2>3, <2>4, <2>5, <2>6, <2>7, <2>8, <2>9
<1>12. Named(list)
  <2>1. ASSUME NEW i \in 1 .. Len(list) - 2, list[i].op = "dup", list[i].slot = Sub
        PROVE  list[i + 2].name = list[i].name
    <3>0. i \in 1 .. Len(list) BY <1>1, <1>3
    <3>1. CASE i \in {1, 2, 3}
      <4>1. CASE i = 2
        <5>1. list[i].slot = PidScheme BY <1>2, <4>1
        <5> QED BY <1>0, <2>1, <5>1
      <4>2. CASE i \in {1, 3}
        <5>1. list[i].op \in {"open", "read"} BY <1>2, <4>2
        <5> QED BY <2>1, <5>1
      <4> QED BY <3>1, <4>1, <4>2
    <3>2. CASE i \in {4, 9} BY <1>2, <2>1, <3>2
    <3>3. CASE i = 5 BY <1>2, <3>3
    <3>4. CASE i = 10
      <4>1. list[12] = old[1] BY <1>1, <1>3
      <4> QED BY <1>2, <3>4, <4>1
    <3>5. CASE i \in {6, 11} BY <1>2, <2>1, <3>5
    <3>6. CASE i \in {7, 8} BY <1>2, <2>1, <3>6
    <3>7. CASE i \in 12 .. Len(list)
      <4>0. Len(old) \in Nat /\ Len(list) = Len(old) + 11 BY <1>1, <1>3
      <4>1. /\ i - 11 \in 1 .. Len(old) - 2 /\ i + 2 \in 12 .. Len(list)
            /\ (i + 2) - 11 = (i - 11) + 2
        BY <3>7, <4>0
      <4>2. list[i] = old[i - 11] /\ list[i + 2] = old[(i - 11) + 2] BY <1>3, <3>7, <4>1
      <4> QED BY <2>1, <4>1, <4>2 DEF Ordered, Named
    <3> QED BY <1>4, <3>0, <3>1, <3>2, <3>3, <3>4, <3>5, <3>6, <3>7
  <2>2. ASSUME NEW i \in 1 .. Len(list), list[i].op \in {"read", "write"}, list[i].slot = Sub
        PROVE  i < Len(list)
    <3>1. CASE i \in 12 .. Len(list)
      <4>1. list[i] = old[i - 11] /\ i - 11 \in 1 .. Len(old) BY <1>3, <1>5, <3>1
      <4>2. i - 11 < Len(old) BY <2>2, <4>1 DEF Ordered, Named
      <4> QED BY <1>1, <1>3, <3>1, <4>2
    <3>2. CASE i \notin 12 .. Len(list) BY <1>1, <1>3, <3>2
    <3> QED BY <3>1, <3>2
  <2> QED BY <2>1, <2>2 DEF Named
<1>13. Taken(list)
  <2>1. ASSUME NEW i \in 1 .. Len(list), Counting(list[i])
        PROVE  i + 2 <= Len(list) /\ Takes(list[i + 2])
    <3>1. i \in 12 .. Len(list) BY <1>6, <2>1 DEF Counting
    <3>2. list[i] = old[i - 11] /\ i - 11 \in 1 .. Len(old) BY <1>3, <1>5, <3>1
    <3>3. (i - 11) + 2 <= Len(old) /\ Takes(old[(i - 11) + 2]) BY <2>1, <3>2 DEF Ordered, Taken
    <3>4. i + 2 \in 12 .. Len(list) /\ (i + 2) - 11 = (i - 11) + 2 BY <1>1, <1>3, <3>1, <3>3
    <3>5. list[i + 2] = old[(i - 11) + 2] BY <1>3, <3>4
    <3> QED BY <1>1, <1>3, <3>3, <3>4, <3>5
  <2>2. ASSUME NEW i \in 3 .. Len(list), Takes(list[i]) PROVE Counting(list[i - 2])
    <3>0. i \in 1 .. Len(list) BY <1>1, <1>3
    <3>1. i \in 12 .. Len(list) /\ i - 11 \in 1 .. Len(old) /\ list[i] = old[i - 11]
      BY <1>7, <2>2, <3>0 DEF Takes
    <3>2. i - 11 # 1
      <4>1. ~Takes(old[1]) BY DEF Takes
      <4> QED BY <2>2, <3>1, <4>1
    <3>3. i - 11 # 2
      <4>1. ~Takes(old[2]) BY <1>1 DEF Takes
      <4> QED BY <2>2, <3>1, <4>1
    <3>4. i - 11 \in 3 .. Len(old) BY <1>1, <3>1, <3>2, <3>3
    <3>5. Counting(old[(i - 11) - 2]) BY <2>2, <3>1, <3>4 DEF Ordered, Taken
    <3>6. i - 2 \in 12 .. Len(list) /\ (i - 2) - 11 = (i - 11) - 2 BY <1>1, <1>3, <3>1, <3>4
    <3>7. list[i - 2] = old[(i - 11) - 2] BY <1>3, <3>6
    <3> QED BY <3>5, <3>7
  <2> QED BY <2>1, <2>2 DEF Taken
<1>14. Ended(list)
  <2>1. ASSUME NEW i \in 1 .. Len(list), list[i].op \in {"tell", "run", "kill"}
        PROVE  i = Len(list)
    <3>1. i - 11 \in 1 .. Len(old) /\ list[i] = old[i - 11] BY <1>7, <2>1
    <3>2. i - 11 = Len(old) BY <2>1, <3>1 DEF Ordered, Ended
    <3> QED BY <1>1, <1>3, <3>2
  <2>2. ASSUME NEW i \in 1 .. Len(list), NEW j \in 1 .. Len(list),
               list[i].op \in {"add", "zero"}, list[j].op = "tell"
        PROVE  FALSE
    <3>1. i - 11 \in 1 .. Len(old) /\ list[i] = old[i - 11] BY <1>7, <2>2
    <3>2. j - 11 \in 1 .. Len(old) /\ list[j] = old[j - 11] BY <1>7, <2>2
    <3> QED BY <2>2, <3>1, <3>2 DEF Ordered, Ended
  <2>3. ASSUME NEW i \in 1 .. Len(list), NEW j \in 1 .. Len(list), TotalsRead(list, i), j > i + 7
        PROVE  list[j].op \in {"zero", "kill"}
    <3>1. i \in 12 .. Len(list) /\ i - 11 \in 1 .. Len(old) /\ TotalsRead(old, i - 11)
      BY <1>5, <1>8, <2>3
    <3>2. j \in 12 .. Len(list) /\ j - 11 \in 1 .. Len(old) /\ j - 11 > (i - 11) + 7
      BY <1>1, <1>3, <2>3, <3>1
    <3>3. old[j - 11].op \in {"zero", "kill"} BY <3>1, <3>2 DEF Ordered, Ended
    <3> QED BY <1>3, <3>2, <3>3
  <2> QED BY <2>1, <2>2, <2>3 DEF Ended
<1>15. ASSUME WritesFollow(old) PROVE WritesFollow(list)
  <2> SUFFICES ASSUME NEW j \in 1 .. Len(list), list[j].op = "write"
               PROVE  j > 6 /\ TotalsRead(list, j - 6)
    BY DEF WritesFollow
  <2>1. j \in 12 .. Len(list) /\ j - 11 \in 1 .. Len(old) /\ list[j] = old[j - 11] BY <1>7
  <2>2. j - 11 > 6 /\ TotalsRead(old, (j - 11) - 6) BY <1>15, <2>1 DEF WritesFollow
  <2>3. /\ j - 6 \in 12 .. Len(list) /\ (j - 6) - 11 = (j - 11) - 6
        /\ (j - 6) + 2 \in 12 .. Len(list) /\ ((j - 6) + 2) - 11 = ((j - 11) - 6) + 2
        /\ j - 6 \in 1 .. Len(list) - 2
    BY <1>1, <1>3, <2>1, <2>2
  <2>4. list[j - 6] = old[(j - 11) - 6] /\ list[(j - 6) + 2] = old[((j - 11) - 6) + 2]
    BY <1>3, <2>3
  <2> QED BY <2>1, <2>2, <2>3, <2>4 DEF TotalsRead
<1> QED BY <1>9, <1>10, <1>11, <1>12, <1>13, <1>14, <1>15 DEF Ordered

-----------------------------------------------------------------------------
(* The descriptors, the process and the buffer, between two calls.         *)

\* The monitor has the descriptors its next call is about.
ReadyAt(f, list) ==
    list # <<>> =>
      LET call == list[1] IN
      /\ call.op = "close" /\ call.slot = Main =>
           /\ f[Main] # NoFd /\ f[Sub] # NoFd
           /\ Len(list) > 1 => f[Sub].sub = list[2].name
      /\ call.op \in {"read", "write"} /\ call.slot = Sub => f[Sub] # NoFd /\ f[Sub].sub = call.name
      /\ call.op = "close" /\ call.slot = Sub => f[Sub] # NoFd
      /\ call.op = "read" /\ call.slot = PidScheme => f[PidScheme] # NoFd

\* What a call does to them, from f to g.
Leaves(call, f, g) ==
    /\ call.op = "dup" /\ call.slot = Sub =>
         g[Main] # NoFd /\ g[Sub] # NoFd /\ g[Sub].sub = call.name
    /\ call.op = "dup" /\ call.slot = PidScheme => g[PidScheme] # NoFd
    /\ call.op = "close" /\ call.slot = Main => g[Sub] = f[Sub]
    /\ call.op \in {"read", "write"} => g = f

LEMMA ReadyNext ==
    ASSUME NEW list, Ordered(list), list # <<>>, NEW f, NEW g,
           ReadyAt(f, list), Leaves(list[1], f, g)
    PROVE  ReadyAt(g, Tail(list))
<1> DEFINE rest == Tail(list)
           a == list[1]
           b == rest[1]
<1>0. Main # Sub /\ {Main, Sub} \cap {ChildScheme, PidScheme} = {} BY LedgerAssumption
<1> SUFFICES ASSUME rest # <<>> PROVE ReadyAt(g, rest)
  BY DEF ReadyAt
<1>1. /\ rest \in Seq(CallType) /\ Len(list) \in Nat \ {0} /\ Len(rest) = Len(list) - 1
      /\ \A i \in 1 .. Len(list) - 1 : rest[i] = list[i + 1]
  BY TailValues DEF Ordered, CallsInOrder
<1>2. Len(rest) \in Nat \ {0}
  <2> HIDE DEF rest
  <2> QED BY <1>1, TailValues
<1> HIDE DEF rest
<1>3. b = list[2] /\ Follows(a, b)
  <2>1. 1 \in 1 .. Len(list) - 1 BY <1>1, <1>2
  <2>2. Follows(list[1], list[1 + 1]) BY <2>1 DEF Ordered, Pairs
  <2> QED BY <1>1, <2>1, <2>2
<1>4. Shape(a)
  <2>1. 1 \in 1 .. Len(list) BY <1>1
  <2> QED BY <2>1 DEF Ordered, Shapes
<1>5. a.op = "dup" /\ a.slot = Sub /\ Len(rest) > 1 => rest[2].name = a.name
  <2>1. Len(rest) > 1 => 1 \in 1 .. Len(list) - 2 /\ rest[2] = list[1 + 2] BY <1>1
  <2> QED BY <2>1 DEF Ordered, Named
<1>6. Len(list) > 1 BY <1>1, <1>2
<1> DEFINE c == rest[2]
           m == Len(rest) > 1
<1>7. /\ a.op = "close" /\ a.slot = Main => f[Sub] # NoFd /\ f[Sub].sub = b.name
      /\ a.op \in {"read", "write"} /\ a.slot = Sub => f[Sub] # NoFd
  BY <1>3, <1>6 DEF ReadyAt
<1> HIDE DEF a, b, c
<1>8. Leaves(a, f, g) BY DEF a
<1>9. ASSUME b.op = "close", b.slot = Main
      PROVE  g[Main] # NoFd /\ g[Sub] # NoFd /\ (m => g[Sub].sub = c.name)
  <2>1. a.op = "dup" /\ a.slot = Sub BY <1>0, <1>3, <1>4, <1>9 DEF Follows, Shape, Steps
  <2> QED BY <1>5, <1>8, <2>1 DEF Leaves, c
<1>10. ASSUME b.op \in {"read", "write"}, b.slot = Sub
       PROVE  g[Sub] # NoFd /\ g[Sub].sub = b.name
  <2>1. a.op = "close" /\ a.slot = Main BY <1>0, <1>3, <1>4, <1>10 DEF Follows, Shape, Steps
  <2> QED BY <1>7, <1>8, <2>1 DEF Leaves
<1>11. ASSUME b.op = "close", b.slot = Sub
       PROVE  g[Sub] # NoFd
  <2>1. a.op \in {"read", "write"} /\ a.slot = Sub
    BY <1>0, <1>3, <1>4, <1>11 DEF Follows, Shape, Steps
  <2> QED BY <1>7, <1>8, <2>1 DEF Leaves
<1>12. ASSUME b.op = "read", b.slot = PidScheme
       PROVE  g[PidScheme] # NoFd
  <2>1. a.op = "dup" /\ a.slot = PidScheme
    BY <1>0, <1>3, <1>4, <1>12 DEF Follows, Shape, Steps
  <2> QED BY <1>8, <2>1 DEF Leaves
<1> QED BY <1>9, <1>10, <1>11, <1>12 DEF ReadyAt, b, c

\* Which calls start a list without needing anything.
LEMMA ReadyFirst ==
    ASSUME NEW list, list # <<>> => list[1].op \in {"open"} \cup Steps, NEW f
    PROVE  ReadyAt(f, list)
BY DEF ReadyAt, Steps

\* What is left to do for a process that is there, or is running, or is not.
Lives(there, up, list) ==
    /\ ~there => ~up /\ (list = <<>> \/ list[1].op \in {"spawn", "tell"})
    /\ there => \A i \in 1 .. Len(list) : list[i].op # "spawn"
    /\ ~up => \A i \in 1 .. Len(list) :
         \/ list[i].op \in {"open", "dup", "run", "spawn", "tell"}
         \/ list[i].op = "read" /\ list[i].name = "pid"
    /\ ~up /\ there => list # <<>> /\ list[Len(list)].op = "run"
    /\ list # <<>> /\ list[1].op = "spawn" => Len(list) > 1 /\ list[Len(list)].op = "run"

\* A call that is no spawn, run or kill, and not the only thing left to do for a new process.
LEMMA LivesNext ==
    ASSUME NEW list, Ordered(list), list # <<>>, NEW there \in BOOLEAN, NEW up \in BOOLEAN,
           Lives(there, up, list), list[1].op \notin {"spawn", "run", "kill"},
           there \/ list[1].op = "tell"
    PROVE  Lives(there, up, Tail(list))
<1> DEFINE rest == Tail(list)
<1>1. /\ rest \in Seq(CallType) /\ Len(list) \in Nat \ {0} /\ Len(rest) = Len(list) - 1
      /\ \A i \in 1 .. Len(list) - 1 : rest[i] = list[i + 1]
  BY TailValues DEF Ordered, CallsInOrder
<1>2. rest # <<>> <=> Len(rest) # 0
  <2> HIDE DEF rest
  <2>1. rest = <<>> => Len(rest) = 0 OBVIOUS
  <2>2. rest # <<>> => Len(rest) \in Nat \ {0} BY <1>1, TailValues
  <2> QED BY <2>1, <2>2
<1> HIDE DEF rest
<1>3. \A i \in 1 .. Len(rest) : i + 1 \in 1 .. Len(list) /\ rest[i] = list[i + 1] BY <1>1
<1>4. rest # <<>> => rest[1].op # "spawn"
  <2> SUFFICES ASSUME rest # <<>> PROVE rest[1].op # "spawn"
    OBVIOUS
  <2>1. 1 \in 1 .. Len(list) - 1 /\ rest[1] = list[1 + 1] BY <1>1, <1>2
  <2>2. Follows(list[1], list[1 + 1]) BY <2>1 DEF Ordered, Pairs
  <2> QED BY <2>1, <2>2 DEF Follows
<1>5. ~there => rest = <<>>
  <2> SUFFICES ASSUME ~there PROVE rest = <<>>
    OBVIOUS
  <2>1. list[1].op = "tell" OBVIOUS
  <2>2. 1 = Len(list) BY <1>1, <2>1 DEF Ordered, Ended
  <2>3. Len(list) \in Nat /\ Len(rest) = Len(list) - 1 BY <1>1
  <2>4. Len(rest) = 0 BY <2>2, <2>3
  <2> QED BY <1>2, <2>4
<1>6. there => \A i \in 1 .. Len(rest) : rest[i].op # "spawn" BY <1>3 DEF Lives
<1>7. ~up => \A i \in 1 .. Len(rest) :
        \/ rest[i].op \in {"open", "dup", "run", "spawn", "tell"}
        \/ rest[i].op = "read" /\ rest[i].name = "pid"
  BY <1>3 DEF Lives
<1>8. ~up /\ there => rest # <<>> /\ rest[Len(rest)].op = "run"
  <2> SUFFICES ASSUME ~up, there PROVE rest # <<>> /\ rest[Len(rest)].op = "run"
    OBVIOUS
  <2>1. list[Len(list)].op = "run" BY DEF Lives
  <2>2. Len(list) # 1 BY <2>1
  <2>3. Len(rest) \in 1 .. Len(rest) /\ Len(rest) + 1 = Len(list) BY <1>1, <2>2
  <2>4. rest[Len(rest)] = list[Len(list)] BY <1>3, <2>3
  <2> QED BY <1>2, <2>1, <2>3, <2>4
<1>9. Lives(there, up, rest)
  <2>1. ~there => ~up BY DEF Lives
  <2> QED BY <1>4, <1>5, <1>6, <1>7, <1>8, <2>1 DEF Lives
<1> QED BY <1>9 DEF rest

\* Nothing is left after a run, a tell or a kill, and no spawn after the first call.
LEMMA LastCalls ==
    ASSUME NEW list, Ordered(list), list # <<>>
    PROVE  /\ list[1].op \in {"tell", "run", "kill"} => Tail(list) = <<>>
           /\ \A i \in 1 .. Len(Tail(list)) : Tail(list)[i].op # "spawn"
<1> DEFINE rest == Tail(list)
<1>1. /\ rest \in Seq(CallType) /\ Len(list) \in Nat \ {0} /\ Len(rest) = Len(list) - 1
      /\ \A i \in 1 .. Len(list) - 1 : rest[i] = list[i + 1]
  BY TailValues DEF Ordered, CallsInOrder
<1> HIDE DEF rest
<1>2. rest # <<>> => Len(rest) \in Nat \ {0} BY <1>1, TailValues
<1>3. list[1].op \in {"tell", "run", "kill"} => rest = <<>>
  <2>1. 1 \in 1 .. Len(list) BY <1>1
  <2>2. list[1].op \in {"tell", "run", "kill"} => 1 = Len(list) BY <2>1 DEF Ordered, Ended
  <2> QED BY <1>1, <1>2, <2>2
<1>4. ASSUME NEW i \in 1 .. Len(rest) PROVE rest[i].op # "spawn"
  <2>1. i \in 1 .. Len(list) - 1 /\ rest[i] = list[i + 1] BY <1>1
  <2>2. Follows(list[i], list[i + 1]) BY <2>1 DEF Ordered, Pairs
  <2> QED BY <2>1, <2>2 DEF Follows
<1> QED BY <1>3, <1>4 DEF rest

\* No list that does not start with a spawn has one.
LEMMA NoSpawn ==
    ASSUME NEW list, Ordered(list), list # <<>>, list[1].op # "spawn"
    PROVE  \A i \in 1 .. Len(list) : list[i].op # "spawn"
<1> TAKE i \in 1 .. Len(list)
<1>1. Len(list) \in Nat \ {0} BY TailValues DEF Ordered, CallsInOrder
<1>2. CASE i = 1 BY <1>2
<1>3. CASE i # 1
  <2>1. i - 1 \in 1 .. Len(list) - 1 /\ (i - 1) + 1 = i BY <1>1, <1>3
  <2>2. Follows(list[i - 1], list[(i - 1) + 1]) BY <2>1 DEF Ordered, Pairs
  <2> QED BY <2>1, <2>2 DEF Follows
<1> QED BY <1>2, <1>3

\* The counts that were read are about to be taken: at once, or after the close.
Soon(list, op) ==
    /\ list # <<>>
    /\ \/ list[1].op = op
       \/ Len(list) > 1 /\ list[1].op = "close" /\ list[2].op = op

BufferAt(read, list) == Soon(list, "take") \/ Soon(list, "add") => read \in Counts

LEMMA SoonNext ==
    ASSUME NEW list, Ordered(list), list # <<>>, NEW op \in {"take", "add"},
           Soon(Tail(list), op)
    PROVE  \/ list[1].op = "close" /\ Soon(list, op)
           \/ Counting(list[1]) /\ Len(list) > 2 /\ list[3].op = op
<1> DEFINE rest == Tail(list)
<1>1. /\ rest \in Seq(CallType) /\ Len(list) \in Nat \ {0} /\ Len(rest) = Len(list) - 1
      /\ \A i \in 1 .. Len(list) - 1 : rest[i] = list[i + 1]
  BY TailValues DEF Ordered, CallsInOrder
<1> HIDE DEF rest
<1>2. /\ rest # <<>>
      /\ rest[1].op = op \/ (Len(rest) > 1 /\ rest[1].op = "close" /\ rest[2].op = op)
  BY DEF Soon, rest
<1>3. Len(rest) \in Nat \ {0} BY <1>1, <1>2, TailValues
<1>4. Len(list) > 1 /\ rest[1] = list[2] /\ Follows(list[1], list[2])
  <2>1. 1 \in 1 .. Len(list) - 1 BY <1>1, <1>3
  <2>2. Follows(list[1], list[1 + 1]) BY <2>1 DEF Ordered, Pairs
  <2> QED BY <1>1, <2>1, <2>2
<1>5. Shape(list[1])
  <2>1. 1 \in 1 .. Len(list) BY <1>1
  <2> QED BY <2>1 DEF Ordered, Shapes
<1>6. CASE rest[1].op = op
  <2>1. list[1].op = "close" BY <1>4, <1>5, <1>6 DEF Follows, Shape, Steps
  <2> QED BY <1>4, <1>6, <2>1 DEF Soon
<1>7. CASE Len(rest) > 1 /\ rest[2].op = op
  <2>1. 3 \in 3 .. Len(list) /\ rest[2] = list[3] BY <1>1, <1>7
  <2>2. Takes(list[3]) BY <1>7, <2>1 DEF Takes
  <2>3. Counting(list[3 - 2]) BY <2>1, <2>2 DEF Ordered, Taken
  <2>4. 3 - 2 = 1 /\ Len(list) > 2 BY <1>1, <1>7
  <2> QED BY <1>7, <2>1, <2>3, <2>4
<1> QED BY <1>2, <1>6, <1>7

LEMMA SoonNot ==
    ASSUME NEW list, list # <<>> => list[1].op \in {"open", "tell", "spawn"}, NEW op \in {"take", "add"}
    PROVE  ~Soon(list, op)
BY DEF Soon

\* How the commands start.
LEMMA CommandsStart ==
    /\ running = TRUE => \A list \in Commands : list # <<>> /\ list[1].op = "open"
    /\ running = FALSE => \A list \in Commands : list # <<>> /\ list[1].op \in {"spawn", "tell"}
    /\ running = FALSE => \A list \in Commands : Lives(FALSE, FALSE, list)
    /\ StartCalls # <<>> /\ StartCalls[1].op = "open" /\ Lives(TRUE, FALSE, StartCalls)
<1>0. \A list : Len(list) # 0 => list # <<>> OBVIOUS
<1>1. \A list : UpdateForm(list) => list # <<>> /\ list[1].op = "open"
  BY <1>0, UpdateOps
<1>2. \A list : ClearOrStop(list) => list # <<>> /\ list[1].op = "open"
  BY <1>0, ClearOps
<1>3. running = TRUE => \A list \in Commands : list # <<>> /\ list[1].op = "open"
  BY <1>1, <1>2, UpdateFront, ClearEnds DEF Commands
<1> DEFINE t == <<Do("tell")>>
           p == <<Do("spawn")>> \o StartCalls
<1>4. t # <<>> /\ Len(t) = 1 /\ t[1].op = "tell"
  BY <1>0, OneStep DEF CallOps
<1>5. /\ p \in Seq(CallType) /\ Len(p) = 5 /\ Tail(p) = StartCalls
      /\ p[1].op = "spawn" /\ p[2].op = "open" /\ p[3].op = "dup"
      /\ p[4].op = "read" /\ p[4].name = "pid" /\ p[5].op = "run"
  BY SpawnOps
<1> HIDE DEF t, p
<1>6. Lives(FALSE, FALSE, t)
  <2>1. \A i \in 1 .. Len(t) : i = 1 BY <1>4
  <2> QED BY <1>4, <2>1 DEF Lives
<1>7. p # <<>> /\ Lives(FALSE, FALSE, p)
  <2>1. 1 .. Len(p) = {1, 2, 3, 4, 5} BY <1>5
  <2>2. p # <<>>
    <3>1. p = <<>> => Len(p) = 0 OBVIOUS
    <3> QED BY <1>5, <3>1
  <2> QED BY <1>5, <2>1, <2>2 DEF Lives
<1>8. /\ StartCalls # <<>> /\ StartCalls[1].op = "open" /\ Lives(TRUE, FALSE, StartCalls)
  <2> DEFINE q == Tail(p)
  <2>1. /\ q \in Seq(CallType) /\ Len(q) = Len(p) - 1
        /\ \A i \in 1 .. Len(p) - 1 : q[i] = p[i + 1]
    BY <1>5, <1>7, TailValues
  <2>2. q = StartCalls BY <1>5
  <2> HIDE DEF q
  <2>3. Len(q) = 4 BY <1>5, <2>1
  <2>4. q[1] = p[2] /\ q[2] = p[3] /\ q[3] = p[4] /\ q[4] = p[5] BY <1>5, <2>1
  <2>5. 1 .. Len(q) = {1, 2, 3, 4} /\ q # <<>> BY <1>0, <2>3
  <2>6. Lives(TRUE, FALSE, q) BY <1>5, <2>3, <2>4, <2>5 DEF Lives
  <2> QED BY <1>5, <2>2, <2>4, <2>5, <2>6
<1>9. running = FALSE => Commands = {t, p} BY DEF Commands, t, p
<1> QED BY <1>3, <1>4, <1>5, <1>6, <1>7, <1>8, <1>9

-----------------------------------------------------------------------------
(* What the requests do to the descriptors and the process.                *)

LEMMA RequestedFrame ==
    ASSUME Tables, CountsType, NEW call, CallShape(call), Requested(call)
    PROVE  alive = TRUE /\ alive' = TRUE /\ Leaves(call, fds, fds')
<1>0. FdsType BY DEF FdsType, Tables, TablesType
<1>1. Main # Sub /\ {Main, Sub} \cap {ChildScheme, PidScheme} = {} BY LedgerAssumption
<1>2. Request => alive = TRUE BY DEF Request, CountsType
<1> USE SlotsOfMonitor
<1>3. CASE call.op = "open" /\ Open(call.slot) /\ fds'[call.slot] # NoFd
  <2>1. alive = TRUE /\ alive' = TRUE BY <1>2, <1>3 DEF Open
  <2> QED BY <1>3, <2>1 DEF Leaves
<1>4. CASE /\ call.op = "dup"
           /\ DupMgmt(IF call.slot = Sub THEN Main ELSE ChildScheme, call.slot)
           /\ fds'[call.slot].sub = call.name
  <2> DEFINE s == IF call.slot = Sub THEN Main ELSE ChildScheme
  <2>1. call.slot \in {Sub, PidScheme} /\ call.slot \in Slots BY <1>4 DEF CallShape
  <2> HIDE DEF s
  <2>2. DupMgmt(s, call.slot) BY <1>4 DEF s
  <2>3. alive = TRUE /\ alive' = TRUE /\ fds[s] # NoFd BY <1>2, <2>2 DEF DupMgmt
  <2>4. PICK name \in MgmtNames : fds' = [fds EXCEPT ![call.slot] = [id |-> next_mgmt_id, sub |-> name]]
    BY <2>2 DEF DupMgmt
  <2>5. fds'[call.slot] = [id |-> next_mgmt_id, sub |-> name] BY <1>0, <2>1, <2>4 DEF FdsType
  <2>6. fds'[call.slot] # NoFd
    <3>1. [id |-> next_mgmt_id, sub |-> name] \in [id: Ids, sub: Subs]
      BY DEF Tables, TablesType, Subs
    <3> QED BY <2>5, <3>1, NoBaseValueAssumption
  <2>7. call.slot = Sub => fds'[Main] = fds[Main] /\ s = Main
    BY <1>0, <1>1, <2>4 DEF FdsType, s
  <2> QED BY <1>4, <2>1, <2>3, <2>6, <2>7 DEF Leaves
<1>5. CASE call.op = "read" /\ Read(call.slot)
  <2>1. alive = TRUE /\ alive' = TRUE /\ fds' = fds BY <1>2, <1>5 DEF Read
  <2> QED BY <1>5, <2>1 DEF Leaves
<1>6. CASE call.op = "write" /\ Write(call.slot)
  <2>1. alive = TRUE /\ alive' = TRUE /\ fds' = fds BY <1>2, <1>6 DEF Write
  <2> QED BY <1>6, <2>1 DEF Leaves
<1>7. CASE call.op = "close" /\ Close(call.slot)
  <2>1. alive = TRUE /\ alive' = TRUE /\ fds' = [fds EXCEPT ![call.slot] = NoFd]
    BY <1>2, <1>7 DEF Close
  <2>2. call.slot = Main => fds'[Sub] = fds[Sub] BY <1>0, <1>1, <2>1 DEF FdsType
  <2> QED BY <1>7, <2>1, <2>2 DEF Leaves
<1> QED BY <1>3, <1>4, <1>5, <1>6, <1>7 DEF Requested

\* Clients have descriptors of their own.
LEMMA AskedFrame ==
    ASSUME Tables, CountsType, NEW s \in Clients,
           Open(s) \/ DupFails(s) \/ Read(s) \/ Write(s) \/ Close(s)
    PROVE  /\ alive = TRUE /\ alive' = TRUE
           /\ \A t \in Kept : fds'[t] = fds[t]
<1>0. FdsType BY DEF FdsType, Tables, TablesType
<1>1. Request => alive = TRUE BY DEF Request, CountsType
<1>2. s \in Slots /\ \A t \in Kept : t \in Slots /\ t # s
  BY LedgerAssumption DEF Clients
<1>3. CASE Open(s)
  <2>1. fds' = fds \/ \E v : fds' = [fds EXCEPT ![s] = v] BY <1>3 DEF Open
  <2>2. alive = TRUE /\ alive' = TRUE BY <1>1, <1>3 DEF Open
  <2> QED BY <1>0, <1>2, <2>1, <2>2 DEF FdsType
<1>4. CASE DupFails(s) BY <1>1, <1>4 DEF DupFails
<1>5. CASE Read(s) BY <1>1, <1>5 DEF Read
<1>6. CASE Write(s) BY <1>1, <1>6 DEF Write
<1>7. CASE Close(s)
  <2>1. alive = TRUE /\ alive' = TRUE /\ fds' = [fds EXCEPT ![s] = NoFd]
    BY <1>1, <1>7 DEF Close
  <2> QED BY <1>0, <1>2, <2>1 DEF FdsType
<1> QED BY <1>3, <1>4, <1>5, <1>6, <1>7

\* A read answers counts when it is one of request_count.
LEMMA ReadCounts ==
    ASSUME Tables, CountsType, NEW s \in Slots, Read(s)
    PROVE  /\ reply'.counts = IF fds[s].sub = "request_count" THEN Updated[2] ELSE NoCounts
           /\ Updated[2] \in Counts
<1>1. fds[s] # NoFd /\ handlers[fds[s].id] = fds[s].sub BY DEF Read, Tables, TablesAgree
<1>2. Updated[2] \in Counts BY UpdatedValues DEF CountsType
<1>3. reply'.counts = IF handlers[fds[s].id] = "request_count" THEN Updated[2] ELSE NoCounts
  BY DEF Read
<1> QED BY <1>1, <1>2, <1>3

LEMMA CallIsNext ==
    ASSUME NEW call, CallShape(call), Requested(call) PROVE Next
BY SlotsOfMonitor DEF Requested, CallShape, Next

-----------------------------------------------------------------------------
(* The types of the ledger.                                                *)

LedgerTypes ==
    /\ running \in BOOLEAN /\ window \in BOOLEAN
    /\ buffer \in Counts \cup {NoCounts}
    /\ counts \in Counts /\ total \in Counts
    /\ answered \in Counts /\ since \in Counts /\ lost \in Counts /\ strayed \in Counts
    /\ clears \in Nat

\* What holds of the service, its tables, and the calls still to be made.
Shaped ==
    /\ Tables /\ CountsType /\ SlotsInv
    /\ Ordered(calls) /\ ReadyAt(fds, calls) /\ Lives(alive, running, calls)
    /\ BufferAt(buffer, calls) /\ LedgerTypes

LEMMA AddedCounts ==
    ASSUME NEW c \in Counts, NEW d \in Counts
    PROVE  Added(c, d) \in Counts /\ \A k \in Kinds : Added(c, d)[k] = c[k] + d[k]
BY DEF Added, Counts

LEMMA BooksTypes ==
    ASSUME NEW by, Books(by), IsAnswer(reply'), LedgerTypes
    PROVE  /\ answered' \in Counts /\ lost' \in Counts /\ strayed' \in Counts
           /\ clears' \in Nat /\ Gained(since) \in Counts
<1>1. /\ Gained(answered) \in Counts /\ Gained(lost) \in Counts
      /\ Gained(strayed) \in Counts /\ Gained(since) \in Counts
  BY GainedValues DEF LedgerTypes
<1>2. /\ answered' = Gained(answered) /\ lost' \in {Gained(lost), lost}
      /\ strayed' \in {Gained(strayed), strayed} /\ clears' \in {clears, clears + 1}
  BY DEF Books
<1> QED BY <1>1, <1>2 DEF LedgerTypes

\* The monitor's next request.
LEMMA ServeShaped ==
    ASSUME FewRequests, Shaped, Serve PROVE Shaped'
<1> DEFINE call == Head(calls)
<1>1. /\ calls # <<>> /\ calls' = Tail(calls) /\ Requested(call) /\ Books("monitor")
      /\ call.op = "read" => buffer' = reply'.counts
      /\ call.op # "read" => buffer' = buffer
      /\ window' = (ForTotals(call) \/ (window /\ clears' = clears))
      /\ since' \in {Zero, since, Gained(since)}
      /\ UNCHANGED <<running, counts, total>>
  BY DEF Serve
<1>2. /\ Tables /\ CountsType /\ SlotsInv /\ LedgerTypes /\ Ordered(calls)
      /\ ReadyAt(fds, calls) /\ Lives(alive, running, calls) /\ BufferAt(buffer, calls)
  BY DEF Shaped
<1>3. /\ calls \in Seq(CallType) /\ Len(calls) \in Nat \ {0} /\ call = calls[1]
  BY <1>1, <1>2, TailValues DEF Ordered, CallsInOrder
<1>4. CallShape(call) /\ Shape(call)
  <2>1. 1 \in 1 .. Len(calls) BY <1>3
  <2>2. Shape(call) BY <1>2, <1>3, <2>1 DEF Ordered, Shapes
  <2>3. CallShape(call)
    BY <1>2, <1>3, <2>1, SlotsOfMonitor DEF Ordered, CallsInOrder, CallShape
  <2> QED BY <2>2, <2>3
<1> HIDE DEF call
<1>5. control.clear \in BOOLEAN BY <1>2 DEF CountsType
<1>6. IsAnswer(reply') /\ SlotsInv' BY <1>1, <1>2, <1>4, <1>5, RequestedEffect
<1>7. Tables' /\ CountsType'
  <2>1. Next BY <1>1, <1>4, CallIsNext
  <2> QED BY <1>2, <2>1, TablesStep, CountsStep
<1>8. alive = TRUE /\ alive' = TRUE /\ Leaves(call, fds, fds')
  BY <1>1, <1>2, <1>4, RequestedFrame
<1>9. call.op \in {"open", "dup", "read", "write", "close"} BY <1>1 DEF Requested
<1>10. Ordered(calls') BY <1>1, <1>2, TailOrdered
<1>11. ReadyAt(fds', calls') BY <1>1, <1>2, <1>3, <1>8, ReadyNext
<1>12. Lives(alive', running', calls')
  <2>1. Lives(TRUE, running, calls) BY <1>2, <1>8
  <2>2. running \in BOOLEAN BY <1>2 DEF LedgerTypes
  <2>3. Lives(TRUE, running, Tail(calls))
    BY <1>1, <1>2, <1>3, <1>9, <2>1, <2>2, LivesNext
  <2> QED BY <1>1, <1>8, <2>3
<1>13. BufferAt(buffer', calls')
  <2> SUFFICES ASSUME NEW op \in {"take", "add"}, Soon(calls', op) PROVE buffer' \in Counts
    BY DEF BufferAt
  <2>1. Soon(Tail(calls), op) BY <1>1
  <2>2. \/ call.op = "close" /\ Soon(calls, op)
        \/ Counting(call) /\ Len(calls) > 2 /\ calls[3].op = op
    BY <1>1, <1>2, <1>3, <2>1, SoonNext
  <2>3. CASE call.op = "close" /\ Soon(calls, op)
    <3>1. Soon(calls, "take") \/ Soon(calls, "add") BY <2>3
    <3> QED BY <1>1, <1>2, <2>3, <3>1 DEF BufferAt
  <2>4. CASE Counting(call)
    <3>1. call.op = "read" /\ call.name = "request_count" BY <2>4 DEF Counting
    <3>2. call.slot = Sub BY <1>4, <3>1 DEF Shape, Steps
    <3>3. fds[Sub].sub = "request_count" BY <1>1, <1>2, <1>3, <3>1, <3>2 DEF ReadyAt
    <3>4. Read(Sub) BY <1>1, <3>1, <3>2 DEF Requested
    <3> QED BY <1>1, <1>2, <3>1, <3>3, <3>4, SlotsOfMonitor, ReadCounts
  <2> QED BY <2>2, <2>3, <2>4
<1>14. LedgerTypes'
  <2>1. /\ answered' \in Counts /\ lost' \in Counts /\ strayed' \in Counts
        /\ clears' \in Nat /\ Gained(since) \in Counts
    BY <1>1, <1>2, <1>6, BooksTypes
  <2>2. window' \in BOOLEAN
    <3>1. ForTotals(call) \in BOOLEAN BY DEF ForTotals
    <3>2. window \in BOOLEAN BY <1>2 DEF LedgerTypes
    <3> QED BY <1>1, <3>1, <3>2
  <2>3. buffer' \in Counts \cup {NoCounts} 
    <3>1. reply'.counts \in Counts \cup {NoCounts} BY <1>7 DEF CountsType
    <3> QED BY <1>1, <1>2, <3>1 DEF LedgerTypes
  <2>4. since' \in Counts
    <3>1. Zero \in Counts BY DEF Zero, Counts
    <3> QED BY <1>1, <1>2, <2>1, <3>1 DEF LedgerTypes
  <2> QED BY <1>1, <1>2, <2>1, <2>2, <2>3, <2>4 DEF LedgerTypes
<1> QED BY <1>6, <1>7, <1>10, <1>11, <1>12, <1>13, <1>14 DEF Shaped

\* A request of another client.
LEMMA AskShaped ==
    ASSUME FewRequests, Shaped, Ask PROVE Shaped'
<1>1. PICK s \in Clients : Open(s) \/ DupFails(s) \/ Read(s) \/ Write(s) \/ Close(s)
  BY DEF Ask
<1>2. /\ Books("other") /\ since' \in {since, Gained(since)}
      /\ window' = (window /\ clears' = clears)
      /\ UNCHANGED <<calls, running, buffer, counts, total>>
  BY DEF Ask, entry
<1>3. /\ Tables /\ CountsType /\ SlotsInv /\ LedgerTypes /\ Ordered(calls)
      /\ ReadyAt(fds, calls) /\ Lives(alive, running, calls) /\ BufferAt(buffer, calls)
  BY DEF Shaped
<1>4. control.clear \in BOOLEAN BY <1>3 DEF CountsType
<1>5. IsAnswer(reply') /\ SlotsInv' BY <1>1, <1>3, <1>4, AskedEffect
<1>6. Tables' /\ CountsType'
  <2>1. Next BY <1>1 DEF Next, Clients
  <2> QED BY <1>3, <2>1, TablesStep, CountsStep
<1>7. alive = TRUE /\ alive' = TRUE /\ \A t \in Kept : fds'[t] = fds[t]
  BY <1>1, <1>3, AskedFrame
<1>8. ReadyAt(fds', calls)
  <2>1. fds'[Main] = fds[Main] /\ fds'[Sub] = fds[Sub] /\ fds'[PidScheme] = fds[PidScheme]
    BY <1>7 DEF Kept
  <2> QED BY <1>3, <2>1 DEF ReadyAt
<1>9. Lives(alive', running', calls')
  BY <1>2, <1>3, <1>7
<1>10. LedgerTypes'
  <2>1. /\ answered' \in Counts /\ lost' \in Counts /\ strayed' \in Counts
        /\ clears' \in Nat /\ Gained(since) \in Counts
    BY <1>2, <1>3, <1>5, BooksTypes
  <2>2. window' \in BOOLEAN /\ since' \in Counts BY <1>2, <1>3, <2>1 DEF LedgerTypes
  <2> QED BY <1>2, <1>3, <2>1, <2>2 DEF LedgerTypes
<1>11. Ordered(calls') /\ ReadyAt(fds', calls') /\ BufferAt(buffer', calls')
  BY <1>2, <1>3, <1>8
<1> QED BY <1>5, <1>6, <1>9, <1>10, <1>11 DEF Shaped

\* A process that is new has counters like the first, and its clients have no descriptor.
LEMMA NewCounts == NewProcess => CountsType'
<1>1. NewProcess => Init' BY DEF NewProcess, Init
<1>2. Init' => CountsType' BY CountsStart, PTL
<1> QED BY <1>1, <1>2

LEMMA NewFrame ==
    ASSUME NewProcess
    PROVE  Tables' /\ CountsType' /\ SlotsInv' /\ alive' = TRUE
<1>1. fds' = [s \in Slots |-> NoFd] /\ alive' = TRUE BY DEF NewProcess
<1>2. SlotsInv' BY <1>1, SlotsOfMonitor DEF SlotsInv
<1> QED BY <1>1, <1>2, NewTables, NewCounts

\* A call that times out.
LEMMA TimedOutShaped ==
    ASSUME Shaped, TimedOut PROVE Shaped'
<1> DEFINE call == Head(calls)
<1>1. /\ calls # <<>> /\ call.op \in {"read", "write"} /\ call.name # "pid"
      /\ calls' = RecoverCalls \o Helper(call.op, call.name) \o Tail(Tail(calls))
      /\ NewProcess /\ lost' = Added(lost, since) /\ since' = Zero
      /\ UNCHANGED <<running, buffer, counts, total, answered, strayed, window, clears>>
  BY DEF TimedOut, entry
<1>2. /\ LedgerTypes /\ Ordered(calls) /\ Lives(alive, running, calls)
      /\ alive \in BOOLEAN
  BY DEF Shaped, CountsType
<1>3. /\ calls \in Seq(CallType) /\ Len(calls) \in Nat \ {0} /\ call = calls[1]
  BY <1>1, <1>2, TailValues DEF Ordered, CallsInOrder
<1> HIDE DEF call
<1>4. AgainForm(calls', calls) BY <1>1, <1>2, <1>3, AgainFront
<1>5. Ordered(calls') BY <1>1, <1>2, <1>3, <1>4, AgainOrdered
<1>6. calls' # <<>> /\ calls'[1].op = "open"
  <2>1. Len(calls') = Len(calls) + 11 BY <1>4 DEF AgainForm
  <2>2. calls'[1].op = "open" BY <1>3, <1>4, AgainOps
  <2>3. calls' = <<>> => Len(calls') = 0 OBVIOUS
  <2> QED BY <1>3, <2>1, <2>2, <2>3
<1>7. /\ Tables' /\ CountsType' /\ SlotsInv' /\ alive' = TRUE BY <1>1, NewFrame
<1>8. running = TRUE
  <2>1. 1 \in 1 .. Len(calls) BY <1>3
  <2>2. running # FALSE BY <1>1, <1>2, <1>3, <2>1 DEF Lives
  <2> QED BY <1>2, <2>2 DEF LedgerTypes
<1>9. Lives(alive', running', calls')
  <2>1. \A i \in 1 .. Len(calls') : calls'[i].op # "spawn" BY <1>5, <1>6, NoSpawn
  <2>2. running' = TRUE /\ calls'[1].op # "spawn" BY <1>1, <1>6, <1>8
  <2> QED BY <1>7, <2>1, <2>2 DEF Lives
<1>10. ReadyAt(fds', calls') BY <1>6, ReadyFirst
<1>11. BufferAt(buffer', calls')
  <2>1. ~Soon(calls', "take") /\ ~Soon(calls', "add") BY <1>6, SoonNot
  <2> QED BY <2>1 DEF BufferAt
<1>12. LedgerTypes'
  <2>1. Added(lost, since) \in Counts /\ Zero \in Counts
    BY <1>2, AddedCounts DEF LedgerTypes, Zero, Counts
  <2> QED BY <1>1, <1>2, <2>1 DEF LedgerTypes
<1> QED BY <1>5, <1>7, <1>9, <1>10, <1>11, <1>12 DEF Shaped

\* What is not a request leaves the service as it is, but for a kill.
LEMMA FrameSame ==
    ASSUME Tables, CountsType, SlotsInv, alive' \in BOOLEAN,
           UNCHANGED <<files, next_fd, handlers, next_mgmt_id, management, requests, control,
                       message, fds, reply, due, late, served>>
    PROVE  Tables' /\ CountsType' /\ SlotsInv'
<1>1. Tables' BY DEF Tables, TablesType, IdsApart, TablesAgree, IdsUnique
<1>2. CountsType' BY DEF CountsType
<1>3. SlotsInv' BY DEF SlotsInv
<1> QED BY <1>1, <1>2, <1>3

\* A command begins.
LEMMA BeginShaped ==
    ASSUME Shaped, Begin PROVE Shaped'
<1>1. /\ calls = <<>> /\ calls' \in Commands /\ buffer' = NoCounts
      /\ UNCHANGED vars /\ UNCHANGED <<running, counts, total, ghosts>>
  BY DEF Begin
<1>2. /\ Tables /\ CountsType /\ SlotsInv /\ LedgerTypes /\ Lives(alive, running, calls)
      /\ running \in BOOLEAN /\ alive \in BOOLEAN
  BY DEF Shaped, LedgerTypes, CountsType
<1>3. Tables' /\ CountsType' /\ SlotsInv' BY <1>1, <1>2, FrameSame DEF vars
<1>5. Ordered(calls') BY <1>1, CommandsOrdered
<1>6. alive' = alive /\ running' = running BY <1>1 DEF vars
<1>7. /\ calls' # <<>> /\ calls'[1].op \in {"open", "spawn", "tell"}
      /\ Lives(alive', running', calls')
  <2>1. CASE running = TRUE
    <3>1. calls' # <<>> /\ calls'[1].op = "open" BY <1>1, <2>1, CommandsStart
    <3>2. alive = TRUE BY <1>2, <2>1 DEF Lives
    <3>3. \A i \in 1 .. Len(calls') : calls'[i].op # "spawn" BY <1>5, <3>1, NoSpawn
    <3>4. Lives(TRUE, TRUE, calls') BY <3>1, <3>3 DEF Lives
    <3> QED BY <1>6, <2>1, <3>1, <3>2, <3>4
  <2>2. CASE running = FALSE
    <3>1. calls' # <<>> /\ calls'[1].op \in {"spawn", "tell"} /\ Lives(FALSE, FALSE, calls')
      BY <1>1, <2>2, CommandsStart
    <3>2. alive = FALSE BY <1>1, <1>2, <2>2 DEF Lives
    <3> QED BY <1>6, <2>2, <3>1, <3>2
  <2> QED BY <1>2, <2>1, <2>2
<1>8. ReadyAt(fds', calls') BY <1>7, ReadyFirst DEF Steps
<1>9. BufferAt(buffer', calls')
  <2>1. ~Soon(calls', "take") /\ ~Soon(calls', "add") BY <1>7, SoonNot
  <2> QED BY <2>1 DEF BufferAt
<1>10. LedgerTypes' BY <1>1, <1>2 DEF LedgerTypes, ghosts
<1> QED BY <1>3, <1>5, <1>7, <1>8, <1>9, <1>10 DEF Shaped

\* After a step on the entry no counts are about to be taken.
LEMMA StepLeaves ==
    ASSUME NEW list, Ordered(list), list # <<>>, list[1].op \in Steps, NEW f
    PROVE  /\ \A op \in {"take", "add"} : ~Soon(Tail(list), op)
           /\ ReadyAt(f, Tail(list)) /\ Ordered(Tail(list))
<1>1. \A op \in {"take", "add"} : ~Soon(Tail(list), op)
  BY SoonNext DEF Steps, Counting
<1>2. Tail(list) # <<>> => Tail(list)[1].op \in {"open"} \cup Steps
  <2> DEFINE rest == Tail(list)
  <2>1. /\ rest \in Seq(CallType) /\ Len(list) \in Nat \ {0} /\ Len(rest) = Len(list) - 1
        /\ \A i \in 1 .. Len(list) - 1 : rest[i] = list[i + 1]
    BY TailValues DEF Ordered, CallsInOrder
  <2> HIDE DEF rest
  <2>2. ASSUME rest # <<>> PROVE rest[1].op \in {"open"} \cup Steps
    <3>1. Len(rest) \in Nat \ {0} BY <2>1, <2>2, TailValues
    <3>2. 1 \in 1 .. Len(list) - 1 /\ rest[1] = list[1 + 1] BY <2>1, <3>1
    <3>3. Follows(list[1], list[1 + 1]) BY <3>2 DEF Ordered, Pairs
    <3> QED BY <3>2, <3>3 DEF Follows
  <2> QED BY <2>2 DEF rest
<1>3. ReadyAt(f, Tail(list)) BY <1>2 DEF ReadyAt, Steps
<1> QED BY <1>1, <1>3, TailOrdered

\* What a step on the entry keeps, whatever it does to it.
LEMMA StepShaped ==
    ASSUME Shaped, NEW op \in Steps, Step(op), LedgerTypes',
           Tables' /\ CountsType' /\ SlotsInv', Lives(alive', running', calls')
    PROVE  Shaped'
<1>1. calls # <<>> /\ Head(calls) = Do(op) /\ calls' = Tail(calls) BY DEF Step
<1>2. Ordered(calls) BY DEF Shaped
<1>3. calls[1].op = op
  BY <1>1, <1>2, TailValues DEF Ordered, CallsInOrder, Do, Call
<1>4. /\ ~Soon(calls', "take") /\ ~Soon(calls', "add")
      /\ ReadyAt(fds', calls') /\ Ordered(calls')
  BY <1>1, <1>2, <1>3, StepLeaves
<1>5. BufferAt(buffer', calls') BY <1>4 DEF BufferAt
<1> QED BY <1>4, <1>5 DEF Shaped

LEMMA StepHead ==
    ASSUME Shaped, NEW op, Step(op)
    PROVE  /\ calls # <<>> /\ Ordered(calls) /\ calls[1].op = op /\ calls' = Tail(calls)
           /\ Lives(alive, running, calls) /\ alive \in BOOLEAN /\ running \in BOOLEAN
<1>1. calls # <<>> /\ Head(calls) = Do(op) /\ calls' = Tail(calls) BY DEF Step
<1>2. Ordered(calls) BY DEF Shaped
<1>3. calls[1].op = op
  BY <1>1, <1>2, TailValues DEF Ordered, CallsInOrder, Do, Call
<1> QED BY <1>1, <1>2, <1>3 DEF Shaped, LedgerTypes, CountsType

LEMMA TakeShaped ==
    ASSUME Shaped, NEW op \in {"take", "add", "zero", "tell"}, Step(op), LedgerTypes',
           UNCHANGED vars, running' = running
    PROVE  Shaped'
<1>1. /\ calls # <<>> /\ Ordered(calls) /\ calls[1].op = op /\ calls' = Tail(calls)
      /\ Lives(alive, running, calls) /\ alive \in BOOLEAN /\ running \in BOOLEAN
  BY StepHead
<1>2. alive' = alive BY DEF vars
<1>3. alive \/ op = "tell" BY <1>1 DEF Lives
<1>4. Lives(alive, running, Tail(calls)) BY <1>1, <1>3, LivesNext
<1>5. Lives(alive', running', calls') BY <1>1, <1>2, <1>4
<1>6. Tables' /\ CountsType' /\ SlotsInv' BY <1>1, <1>2, FrameSame DEF vars, Shaped
<1> QED BY <1>5, <1>6, StepShaped DEF Steps

\* The buffer holds counts when they are taken.
LEMMA BufferTaken ==
    ASSUME Shaped, NEW op \in {"take", "add"}, Step(op)
    PROVE  buffer \in Counts
<1>1. calls # <<>> /\ calls[1].op = op BY StepHead
<1>2. Soon(calls, "take") \/ Soon(calls, "add") BY <1>1 DEF Soon
<1> QED BY <1>2 DEF Shaped, BufferAt

LEMMA RunShaped ==
    ASSUME Shaped, Run PROVE Shaped'
<1>1. /\ Step("run") /\ UNCHANGED vars /\ running' = TRUE /\ buffer' = buffer
      /\ UNCHANGED <<counts, total, ghosts>>
  BY DEF Run, Step
<1>2. /\ calls # <<>> /\ Ordered(calls) /\ calls[1].op = "run" /\ calls' = Tail(calls)
      /\ Lives(alive, running, calls) /\ alive \in BOOLEAN /\ running \in BOOLEAN
  BY <1>1, StepHead
<1>3. calls' = <<>> /\ alive = TRUE BY <1>2, LastCalls DEF Lives
<1>4. Lives(TRUE, TRUE, calls')
  <2>1. Len(calls') = 0 BY <1>3
  <2> QED BY <1>3, <2>1 DEF Lives
<1>5. Lives(alive', running', calls') BY <1>1, <1>3, <1>4 DEF vars
<1>6. Tables' /\ CountsType' /\ SlotsInv' BY <1>1, <1>2, FrameSame DEF vars, Shaped
<1>7. LedgerTypes' BY <1>1 DEF LedgerTypes, Shaped, ghosts
<1> QED BY <1>1, <1>5, <1>6, <1>7, StepShaped DEF Steps

LEMMA SpawnShaped ==
    ASSUME Shaped, Spawn PROVE Shaped'
<1>1. /\ Step("spawn") /\ NewProcess /\ buffer' = buffer
      /\ UNCHANGED <<running, counts, total, ghosts>>
  BY DEF Spawn, Step
<1>2. /\ calls # <<>> /\ Ordered(calls) /\ calls[1].op = "spawn" /\ calls' = Tail(calls)
      /\ Lives(alive, running, calls) /\ alive \in BOOLEAN /\ running \in BOOLEAN
  BY <1>1, StepHead
<1>3. Tables' /\ CountsType' /\ SlotsInv' /\ alive' = TRUE BY <1>1, NewFrame
<1> DEFINE rest == Tail(calls)
<1>4. /\ rest \in Seq(CallType) /\ Len(calls) \in Nat \ {0} /\ Len(rest) = Len(calls) - 1
      /\ \A i \in 1 .. Len(calls) - 1 : rest[i] = calls[i + 1]
  BY <1>2, TailValues DEF Ordered, CallsInOrder
<1>5. \A i \in 1 .. Len(rest) : rest[i].op # "spawn" BY <1>2, LastCalls
<1> HIDE DEF rest
<1>6. running = FALSE
  <2>1. 1 \in 1 .. Len(calls) BY <1>4
  <2>2. alive # TRUE BY <1>2, <2>1 DEF Lives
  <2> QED BY <1>2, <2>2 DEF Lives
<1>7. Len(calls) > 1 /\ calls[Len(calls)].op = "run" BY <1>2 DEF Lives
<1>8. \A i \in 1 .. Len(rest) : i + 1 \in 1 .. Len(calls) /\ rest[i] = calls[i + 1] BY <1>4
<1>9. \A i \in 1 .. Len(rest) :
        \/ rest[i].op \in {"open", "dup", "run", "spawn", "tell"}
        \/ rest[i].op = "read" /\ rest[i].name = "pid"
  BY <1>2, <1>6, <1>8 DEF Lives
<1>10. rest # <<>> /\ rest[Len(rest)].op = "run"
  <2>1. Len(rest) \in 1 .. Len(rest) /\ Len(rest) + 1 = Len(calls) BY <1>4, <1>7
  <2>2. rest = <<>> => Len(rest) = 0 OBVIOUS
  <2> QED BY <1>7, <1>8, <2>1, <2>2
<1>11. rest[1].op # "spawn"
  <2>1. 1 \in 1 .. Len(rest) BY <1>4, <1>7
  <2> QED BY <1>5, <2>1
<1>12. Lives(TRUE, FALSE, rest) BY <1>5, <1>9, <1>10, <1>11 DEF Lives
<1>13. Lives(alive', running', calls') BY <1>1, <1>2, <1>3, <1>6, <1>12 DEF rest
<1>14. LedgerTypes' BY <1>1 DEF LedgerTypes, Shaped, ghosts
<1> QED BY <1>1, <1>3, <1>13, <1>14, StepShaped DEF Steps

LEMMA KillShaped ==
    ASSUME Shaped, Kill PROVE Shaped'
<1>1. /\ Step("kill") /\ running' = FALSE /\ alive' = FALSE /\ buffer' = buffer
      /\ UNCHANGED <<files, next_fd, handlers, next_mgmt_id, management, requests, control,
                     message, fds, reply, due, late, served, window>>
      /\ counts' = Zero /\ total' = Zero /\ answered' = Zero /\ since' = Zero
      /\ lost' = Zero /\ strayed' = Zero /\ clears' = 0
  BY DEF Kill, FreshEntry, Step
<1>2. calls # <<>> /\ Ordered(calls) /\ calls[1].op = "kill" /\ calls' = Tail(calls)
  BY <1>1, StepHead
<1>3. calls' = <<>> BY <1>2, LastCalls
<1>4. Lives(FALSE, FALSE, calls')
  <2>1. Len(calls') = 0 BY <1>3
  <2> QED BY <1>3, <2>1 DEF Lives
<1>5. Lives(alive', running', calls') BY <1>1, <1>4
<1>6. Tables' /\ CountsType' /\ SlotsInv' BY <1>1, FrameSame DEF Shaped
<1>7. LedgerTypes' BY <1>1 DEF LedgerTypes, Shaped, Zero, Counts
<1> QED BY <1>1, <1>5, <1>6, <1>7, StepShaped DEF Steps

LEMMA ShapedStart == LedgerInit => Shaped
<1> SUFFICES ASSUME LedgerInit PROVE Shaped
  OBVIOUS
<1>1. /\ Init /\ calls = StartCalls /\ running = FALSE /\ buffer = NoCounts
      /\ counts = Zero /\ total = Zero /\ answered = Zero /\ since = Zero
      /\ lost = Zero /\ strayed = Zero /\ window = FALSE /\ clears = 0
  BY DEF LedgerInit
<1>2. Tables /\ CountsType BY <1>1, TablesStart, CountsStart
<1>3. fds = [s \in Slots |-> NoFd] /\ alive = TRUE BY <1>1 DEF Init
<1>4. SlotsInv BY <1>3, SlotsOfMonitor DEF SlotsInv
<1>5. Ordered(calls) BY <1>1, CommandsOrdered
<1>6. calls # <<>> /\ calls[1].op = "open" /\ Lives(alive, running, calls)
  BY <1>1, <1>3, CommandsStart
<1>7. ReadyAt(fds, calls) BY <1>6, ReadyFirst
<1>8. BufferAt(buffer, calls)
  <2>1. ~Soon(calls, "take") /\ ~Soon(calls, "add") BY <1>6, SoonNot
  <2> QED BY <2>1 DEF BufferAt
<1>9. LedgerTypes BY <1>1 DEF LedgerTypes, Zero, Counts
<1> QED BY <1>2, <1>4, <1>5, <1>6, <1>7, <1>8, <1>9 DEF Shaped

LEMMA ShapedStep ==
    ASSUME FewRequests, Shaped, [LedgerNext]_ledgerVars PROVE Shaped'
<1>1. CASE Begin BY <1>1, BeginShaped
<1>2. CASE Serve BY <1>2, ServeShaped
<1>3. CASE Ask BY <1>3, AskShaped
<1>4. CASE TimedOut BY <1>4, TimedOutShaped
<1>5. CASE Take
  <2>1. /\ Step("take") /\ counts' = buffer /\ UNCHANGED vars /\ buffer' = buffer
        /\ UNCHANGED <<running, total, ghosts>>
    BY <1>5 DEF Take, Step
  <2>2. LedgerTypes' BY <2>1, BufferTaken DEF LedgerTypes, Shaped, ghosts
  <2> QED BY <2>1, <2>2, TakeShaped
<1>6. CASE AddUp
  <2>1. /\ Step("add") /\ total' = Added(total, buffer) /\ UNCHANGED vars /\ buffer' = buffer
        /\ UNCHANGED <<running, counts, ghosts>>
    BY <1>6 DEF AddUp, Step
  <2>2. LedgerTypes' BY <2>1, BufferTaken, AddedCounts DEF LedgerTypes, Shaped, ghosts
  <2> QED BY <2>1, <2>2, TakeShaped
<1>7. CASE SetZero
  <2>1. /\ Step("zero") /\ counts' = Zero /\ UNCHANGED vars /\ buffer' = buffer
        /\ UNCHANGED <<running, total, ghosts>>
    BY <1>7 DEF SetZero, Step
  <2>2. LedgerTypes' BY <2>1 DEF LedgerTypes, Shaped, ghosts, Zero, Counts
  <2> QED BY <2>1, <2>2, TakeShaped
<1>8. CASE Tell
  <2>1. /\ Step("tell") /\ UNCHANGED vars /\ buffer' = buffer
        /\ UNCHANGED <<running, counts, total, ghosts>>
    BY <1>8 DEF Tell, Step
  <2>2. LedgerTypes' BY <2>1 DEF LedgerTypes, Shaped, ghosts
  <2> QED BY <2>1, <2>2, TakeShaped
<1>9. CASE Run BY <1>9, RunShaped
<1>10. CASE Spawn BY <1>10, SpawnShaped
<1>11. CASE Kill BY <1>11, KillShaped
<1>12. CASE UNCHANGED ledgerVars
  <2>1. UNCHANGED vars /\ UNCHANGED <<calls, entry, ghosts>> BY <1>12 DEF ledgerVars
  <2>2. Tables' /\ CountsType' /\ SlotsInv'
    BY <2>1, FrameSame DEF vars, Shaped, CountsType
  <2>3. LedgerTypes' BY <2>1 DEF LedgerTypes, Shaped, entry, ghosts
  <2>4. /\ calls' = calls /\ fds' = fds /\ alive' = alive /\ running' = running /\ buffer' = buffer
    BY <2>1 DEF vars, entry
  <2> QED BY <2>2, <2>3, <2>4 DEF Shaped
<1> QED
  BY <1>1, <1>2, <1>3, <1>4, <1>5, <1>6, <1>7, <1>8, <1>9, <1>10, <1>11, <1>12 DEF LedgerNext

LEMMA ShapedAlways == FewRequests => (LedgerSpec => []Shaped)
<1> SUFFICES ASSUME FewRequests PROVE LedgerSpec => []Shaped
  OBVIOUS
<1>1. Shaped /\ [LedgerNext]_ledgerVars => Shaped' BY ShapedStep
<1> QED BY <1>1, ShapedStart, PTL DEF LedgerSpec

\* Whatever the clients send, and whichever reads and writes time out: when the counts
\* are taken from the one read_buffer of update_service_info and clear (the monitor's
\* main.rs) it holds counts, and a descriptor that a helper uses is open, of a process
\* that is there, while fewer requests come than there are ids.
THEOREM LedgerTyped == FewRequests => (LedgerSpec => []LedgerTypeInv)
<1>1. Shaped => LedgerTypeInv
  <2> SUFFICES ASSUME Shaped PROVE LedgerTypeInv
    OBVIOUS
  <2>1. TypeOK BY DEF Shaped, Tables, TablesType, CountsType, TypeOK
  <2>2. /\ running \in BOOLEAN /\ window \in BOOLEAN
        /\ buffer \in Counts \cup {NoCounts}
        /\ {counts, total, answered, since, lost, strayed} \subseteq Counts
        /\ clears \in Nat
    BY DEF Shaped, LedgerTypes
  <2>3. ASSUME calls # <<>>
        PROVE  /\ Head(calls).op \in {"take", "add"} => buffer # NoCounts
               /\ Head(calls).op \in {"read", "write", "close"} =>
                    fds[Head(calls).slot] # NoFd /\ alive
    <3>1. /\ Ordered(calls) /\ ReadyAt(fds, calls) /\ Lives(alive, running, calls)
          /\ BufferAt(buffer, calls) /\ alive \in BOOLEAN
      BY DEF Shaped, CountsType
    <3>2. Head(calls) = calls[1] /\ 1 \in 1 .. Len(calls)
      BY <2>3, <3>1, TailValues DEF Ordered, CallsInOrder
    <3>3. Shape(calls[1]) BY <3>1, <3>2 DEF Ordered, Shapes
    <3> DEFINE a == calls[1]
    <3>4. ASSUME a.op \in {"take", "add"} PROVE buffer # NoCounts
      <4>1. Soon(calls, "take") \/ Soon(calls, "add") BY <2>3, <3>4 DEF Soon
      <4> QED BY <3>1, <4>1, NoBaseValueAssumption DEF BufferAt
    <3>5. ASSUME a.op \in {"read", "write", "close"} PROVE fds[a.slot] # NoFd /\ alive
      <4>1. a.slot \in {Main, Sub, PidScheme} BY <3>3, <3>5 DEF Shape, Steps
      <4>2. a.slot = PidScheme => a.op = "read" \/ a.slot \in {Main, Sub}
        BY <3>3, <3>5 DEF Shape, Steps
      <4>3. a.slot = Main => a.op = "close" BY <3>3, <3>5, LedgerAssumption DEF Shape, Steps
      <4>4. fds[a.slot] # NoFd BY <2>3, <3>1, <3>5, <4>1, <4>2, <4>3, LedgerAssumption DEF ReadyAt
      <4>5. alive BY <2>3, <3>1, <3>5 DEF Lives
      <4> QED BY <4>4, <4>5
    <3> QED BY <3>2, <3>4, <3>5
  <2> QED BY <2>1, <2>2, <2>3 DEF LedgerTypeInv
<1> QED BY <1>1, ShapedAlways, PTL

\* The tables of a service and its clients agree, and no id is shared, while the monitor is
\* one of the clients as well: with the descriptors that start() and recover() (the
\* monitor's main.rs) never close, helpers that are given up between two calls, and
\* processes that are replaced.
THEOREM LedgerTablesCorrect == FewRequests => (LedgerSpec => [](TablesAgree /\ IdsUnique))
<1>1. Shaped => TablesAgree /\ IdsUnique BY DEF Shaped, Tables
<1> QED BY <1>1, ShapedAlways, PTL

\* What becomes of a process: it is replaced, or killed.
Replaced == Init'
Killed ==
    /\ alive' = FALSE
    /\ UNCHANGED <<files, next_fd, handlers, next_mgmt_id, management, requests, control,
                   message, fds, reply, due, late, served>>

\* What the monitor and its clients ask of a service is what any clients of a BaseScheme
\* ask: the calls of read_helper, write_helper, start() and recover() (the monitor's
\* main.rs) are requests of it one by one, and the rest replaces the process or kills it.
THEOREM LedgerRunsBase == FewRequests => (LedgerSpec => Init /\ [][Next \/ Replaced \/ Killed]_vars)
<1>1. LedgerInit => Init BY DEF LedgerInit
<1>2. Shaped /\ [LedgerNext]_ledgerVars => [Next \/ Replaced \/ Killed]_vars
  <2> SUFFICES ASSUME Shaped, [LedgerNext]_ledgerVars PROVE [Next \/ Replaced \/ Killed]_vars
    OBVIOUS
  <2>1. NewProcess => Replaced BY DEF NewProcess, Init, Replaced
  <2>2. ASSUME Serve PROVE Next
    <3>1. calls # <<>> /\ Ordered(calls) /\ Requested(Head(calls)) BY <2>2 DEF Serve, Shaped
    <3>2. Head(calls) = calls[1] /\ 1 \in 1 .. Len(calls)
      BY <3>1, TailValues DEF Ordered, CallsInOrder
    <3> DEFINE call == Head(calls)
               s == IF call.slot = Sub THEN Main ELSE ChildScheme
    <3>3. call.op \in {"open", "dup", "read", "write", "close"} => call.slot \in Slots
      BY <3>1, <3>2, SlotsOfMonitor DEF Ordered, CallsInOrder
    <3>4. s \in Slots BY SlotsOfMonitor
    <3> HIDE DEF call
    <3>5. Requested(call) BY <3>1 DEF call
    <3>6. CASE call.op = "dup" /\ DupMgmt(s, call.slot)
      <4> HIDE DEF s
      <4> QED BY <3>3, <3>4, <3>6 DEF Next
    <3>7. CASE /\ call.op \in {"open", "read", "write", "close"}
               /\ Open(call.slot) \/ Read(call.slot) \/ Write(call.slot) \/ Close(call.slot)
      BY <3>3, <3>7 DEF Next
    <3> QED BY <3>5, <3>6, <3>7 DEF Requested
  <2>3. Ask => Next BY DEF Ask, Clients, Next
  <2>4. TimedOut \/ Spawn => Replaced BY <2>1 DEF TimedOut, Spawn
  <2>5. Kill => Killed BY DEF Kill, Killed
  <2>6. Begin \/ Take \/ AddUp \/ SetZero \/ Tell \/ Run => UNCHANGED vars
    BY DEF Begin, Take, AddUp, SetZero, Tell, Run
  <2>7. UNCHANGED ledgerVars => UNCHANGED vars BY DEF ledgerVars
  <2> QED BY <2>2, <2>3, <2>4, <2>5, <2>6, <2>7 DEF LedgerNext
<1> QED BY <1>1, <1>2, ShapedAlways, PTL DEF LedgerSpec

\* A reader of request_count is told every counted request since the last clear while the
\* monitor is one of the clients as well: stop() and clear() (the monitor's main.rs) write
\* the clear, and a service that is killed or recovered starts a new account.
THEOREM LedgerStatsCorrect == FewRequests => (LedgerSpec => []StatsAccount)
<1> SUFFICES ASSUME FewRequests PROVE LedgerSpec => []StatsAccount
  OBVIOUS
<1>1. Shaped /\ Account /\ [Next \/ Replaced \/ Killed]_vars => Account'
  <2> SUFFICES ASSUME Shaped, Account, [Next \/ Replaced \/ Killed]_vars PROVE Account'
    OBVIOUS
  <2>1. CASE [Next]_vars BY <2>1, AccountStep DEF Shaped
  <2>2. CASE Replaced BY <2>2 DEF Replaced, Init, Account, StatsAccount, Zero
  <2>3. CASE Killed BY <2>3 DEF Killed, Account, StatsAccount
  <2> QED BY <2>1, <2>2, <2>3
<1>2. Account => StatsAccount BY DEF Account
<1> QED BY <1>1, <1>2, AccountStart, ShapedAlways, LedgerRunsBase, PTL
=============================================================================
