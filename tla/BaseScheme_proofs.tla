-------------------------- MODULE BaseScheme_proofs --------------------------
(***************************************************************************)
(* Theorems about BaseScheme, for every set of users and descriptors and   *)
(* every mode.                                                             *)
(***************************************************************************)
EXTENDS BaseScheme, FiniteSetTheorems, TLAPS

\* As many requests as there are ids below the first management id.
FewRequests == MaxRequests <= FirstMgmt

-----------------------------------------------------------------------------
(* Ids, counters and tables.                                               *)

\* While the ids above the last one are free, the main scheme takes the next one.
LEMMA NextFdIsNext ==
    ASSUME NEW table \in OpenFiles, NEW fd \in Ids, fd + 1 < IdMod, table[fd + 1] = NoUser
    PROVE  NextFd(table, fd) = fd + 1
<1> DEFINE P(k) == /\ table[(fd + k) % IdMod] = NoUser
                   /\ \A j \in 1 .. k - 1 : table[(fd + j) % IdMod] # NoUser
<1>1. IdMod \in Nat \ {0} /\ fd \in Nat BY RandAssumption DEF Ids
<1>2. (fd + 1) % IdMod = fd + 1 BY <1>1
<1>3. 1 \in 1 .. IdMod /\ P(1) BY <1>1, <1>2
<1>4. \A k \in 1 .. IdMod : P(k) => k = 1 BY <1>1, <1>2
<1> HIDE DEF P
<1>5. (CHOOSE k \in 1 .. IdMod : P(k)) = 1 BY <1>3, <1>4
<1> QED BY <1>2, <1>5 DEF NextFd, P

\* The first management ids are counted down.
LEMMA NextMgmtIsPrevious ==
    ASSUME NEW id \in Ids, id > 0 PROVE NextMgmt(id) = id - 1
BY RandAssumption DEF NextMgmt, Ids

\* Counting adds one to one counter.
LEMMA PlusValues ==
    ASSUME NEW c \in Counts, NEW kind \in Kinds
    PROVE  /\ Plus(c, kind) \in Counts
           /\ \A k \in Kinds : Plus(c, kind)[k] = IF k = kind THEN c[k] + 1 ELSE c[k]
BY DEF Plus, Counts

LEMMA CountedValues ==
    ASSUME NEW c \in Counts, NEW sub, NEW kind \in Kinds, NEW ok \in BOOLEAN
    PROVE  /\ Counted(c, sub, kind, ok) \in Counts
           /\ \A k \in Kinds : Counted(c, sub, kind, ok)[k] \in {c[k], c[k] + 1}
<1>1. "errors" \in Kinds BY DEF Kinds
<1> DEFINE hit == IF ok THEN kind ELSE "errors"
<1>2. hit \in Kinds BY <1>1
<1>3. CASE sub # "main" BY <1>3 DEF Counted, Counts
<1>4. CASE sub = "main"
  <2>1. Counted(c, sub, kind, ok) = Plus(c, hit) BY <1>4 DEF Counted
  <2> HIDE DEF hit
  <2> QED BY <1>2, <2>1, PlusValues DEF Counts
<1> QED BY <1>3, <1>4

\* Counting the same request in a part and in the whole keeps the sum.
LEMMA CountedSum ==
    ASSUME NEW c \in Counts, NEW d \in Counts, NEW e \in Counts,
           \A k \in Kinds : c[k] + d[k] = e[k],
           NEW sub, NEW kind \in Kinds, NEW ok \in BOOLEAN
    PROVE  \A k \in Kinds : Counted(c, sub, kind, ok)[k] + d[k] = Counted(e, sub, kind, ok)[k]
<1>1. "errors" \in Kinds BY DEF Kinds
<1> DEFINE hit == IF ok THEN kind ELSE "errors"
<1>2. hit \in Kinds BY <1>1
<1>3. CASE sub # "main" BY <1>3 DEF Counted
<1>4. CASE sub = "main"
  <2>1. Counted(c, sub, kind, ok) = Plus(c, hit) /\ Counted(e, sub, kind, ok) = Plus(e, hit)
    BY <1>4 DEF Counted
  <2> HIDE DEF hit
  <2>2. \A k \in Kinds : /\ Plus(c, hit)[k] = IF k = hit THEN c[k] + 1 ELSE c[k]
                         /\ Plus(e, hit)[k] = IF k = hit THEN e[k] + 1 ELSE e[k]
    BY <1>2, PlusValues
  <2>3. \A k \in Kinds : c[k] \in Nat /\ d[k] \in Nat /\ e[k] \in Nat BY DEF Counts
  <2>4. \A k \in Kinds : Plus(c, hit)[k] + d[k] = Plus(e, hit)[k] BY <2>2, <2>3
  <2> QED BY <2>1, <2>4
<1> QED BY <1>3, <1>4

\* An update keeps or resets the counters; without a pending clear or a stop its
\* snapshot is what the counters are, as long as seven bytes hold them.
LEMMA UpdatedValues ==
    ASSUME management \in Counts, requests \in Counts
    PROVE  /\ Updated[1] \in Counts /\ Updated[2] \in Counts
           /\ Updated[1] = IF control.clear THEN Zero ELSE management
           /\ control.clear => Updated[2] = Zero
           /\ ~control.clear /\ ~control.stop /\ (\A k \in Kinds : management[k] < Low7) =>
                Updated[2] = management
           /\ ~control.clear /\ ~control.stop =>
                \A k \in Kinds : Updated[2][k] = management[k] % Low7
<1>1. Zero \in Counts BY DEF Zero, Counts
<1>2. \A k \in Kinds : management[k] \in Nat /\ management[k] % Low7 \in Nat
  BY BaseAssumption DEF Counts
<1>3. Copied(management) \in Counts BY <1>2 DEF Copied, Counts
<1>4. (\A k \in Kinds : management[k] < Low7) => Copied(management) = management
  <2> SUFFICES ASSUME \A k \in Kinds : management[k] < Low7
               PROVE  Copied(management) = management
    OBVIOUS
  <2>1. \A k \in Kinds : management[k] % Low7 = management[k]
    BY <1>2, BaseAssumption
  <2> QED BY <2>1 DEF Copied, Counts
<1>5. \A k \in Kinds : Copied(management)[k] = management[k] % Low7 BY DEF Copied
<1> QED BY <1>1, <1>3, <1>4, <1>5 DEF Updated

-----------------------------------------------------------------------------
(* Types, and the tables of descriptors.                                   *)

\* The types of the tables, and what is always true of them.
TablesType ==
    /\ files \in OpenFiles /\ next_fd \in Ids
    /\ handlers \in [Ids -> Subs \cup {NoSub}] /\ next_mgmt_id \in Ids
    /\ fds \in [Slots -> [id: Ids, sub: Subs] \cup {NoFd}]
    /\ served \in 0 .. MaxRequests

Tables == TablesType /\ IdsApart /\ TablesAgree /\ IdsUnique

\* Where the next ids are: free, in range, and those of the main scheme below those
\* of the management schemes.
LEMMA NextIds ==
    ASSUME FewRequests, Tables, served < MaxRequests
    PROVE  /\ next_fd \in Nat /\ next_mgmt_id \in Nat /\ served \in Nat
           /\ FirstMgmt \in Nat /\ FirstMgmt < IdMod /\ MaxRequests \in Nat
           /\ next_fd < next_mgmt_id /\ next_mgmt_id <= FirstMgmt
           /\ handlers[next_fd] = NoSub /\ handlers[next_mgmt_id] = NoSub
           /\ files[next_fd] = NoUser /\ files[next_fd + 1] = NoUser
           /\ \A s \in Slots : fds[s] # NoFd =>
                fds[s].id \in Ids /\ fds[s].id # next_fd /\ fds[s].id # next_mgmt_id
<1>1. /\ next_fd \in Nat /\ next_mgmt_id \in Nat /\ served \in Nat
      /\ FirstMgmt \in Nat /\ FirstMgmt < IdMod /\ MaxRequests \in Nat /\ IdMod \in Nat
  BY BaseAssumption, RandAssumption DEF Tables, TablesType, Ids
<1>2. next_fd < next_mgmt_id /\ next_mgmt_id <= FirstMgmt
  BY <1>1 DEF FewRequests, Tables, IdsApart
<1>3. next_fd \in Ids /\ next_fd + 1 \in Ids /\ next_mgmt_id \in Ids
  BY <1>1, <1>2 DEF Ids
<1>4. handlers[next_fd] = NoSub /\ handlers[next_mgmt_id] = NoSub
  BY <1>1, <1>2, <1>3 DEF Tables, TablesType, IdsApart, Subs
<1>5. handlers[next_fd] # "main" /\ handlers[next_fd + 1] # "main"
  BY <1>1, <1>3 DEF Tables, IdsApart
<1>6. files[next_fd] = NoUser /\ files[next_fd + 1] = NoUser
  BY <1>3, <1>5 DEF Tables, TablesAgree
<1>7. ASSUME NEW s \in Slots, fds[s] # NoFd
      PROVE  fds[s].id \in Ids /\ fds[s].id # next_fd /\ fds[s].id # next_mgmt_id
  <2>1. fds[s] \in [id: Ids, sub: Subs] BY <1>7 DEF Tables, TablesType
  <2>2. handlers[fds[s].id] # NoSub
    BY <1>7, <2>1, NoBaseValueAssumption DEF Tables, TablesAgree
  <2> QED BY <1>4, <2>1, <2>2
<1> QED BY <1>1, <1>2, <1>4, <1>6, <1>7

\* The tables stay in order when a request leaves them alone, ...
LEMMA SameTables ==
    ASSUME Tables, served' \in {served, served + 1}, served' \in 0 .. MaxRequests,
           UNCHANGED <<files, next_fd, handlers, next_mgmt_id, fds>>
    PROVE  Tables'
BY BaseAssumption DEF Tables, TablesType, IdsApart, TablesAgree, IdsUnique, Ids

\* ... when the main scheme is opened, ...
LEMMA OpenTables ==
    ASSUME FewRequests, Tables, served < MaxRequests, served' = served + 1,
           NEW s \in Slots, fds[s] = NoFd, NEW u \in Users,
           files' = Opened(files, next_fd, u),
           next_fd' = NextFd(files', next_fd),
           handlers' = [handlers EXCEPT ![next_fd] = "main"],
           fds' = [fds EXCEPT ![s] = [id |-> next_fd, sub |-> "main"]],
           UNCHANGED next_mgmt_id
    PROVE  Tables'
<1>1. /\ next_fd \in Nat /\ next_mgmt_id \in Nat /\ served \in Nat
      /\ FirstMgmt \in Nat /\ FirstMgmt < IdMod /\ MaxRequests \in Nat
      /\ next_fd < next_mgmt_id /\ next_mgmt_id <= FirstMgmt
      /\ handlers[next_fd] = NoSub /\ files[next_fd + 1] = NoUser
      /\ \A t \in Slots : fds[t] # NoFd => fds[t].id \in Ids /\ fds[t].id # next_fd
  BY NextIds
<1>2. next_fd \in Ids /\ next_fd + 1 \in Ids /\ IdMod \in Nat
  BY <1>1, RandAssumption DEF Ids
<1>3. files' \in OpenFiles /\ files'[next_fd + 1] = NoUser
  BY <1>1, <1>2 DEF Opened, Tables, TablesType, OpenFiles
<1>4. next_fd' = next_fd + 1 BY <1>1, <1>2, <1>3, NextFdIsNext DEF Ids
<1>5. \A i \in Ids : /\ handlers'[i] = IF i = next_fd THEN "main" ELSE handlers[i]
                     /\ files'[i] = IF i = next_fd THEN u ELSE files[i]
  BY <1>2 DEF Opened, Tables, TablesType, OpenFiles
<1>6. \A t \in Slots : fds'[t] = IF t = s THEN [id |-> next_fd, sub |-> "main"] ELSE fds[t]
  BY DEF Tables, TablesType
<1>7. [id |-> next_fd, sub |-> "main"] \in [id: Ids, sub: Subs] BY <1>2 DEF Subs
<1>8. TablesType'
  BY <1>1, <1>2, <1>3, <1>4, <1>7 DEF Tables, TablesType, Subs
<1>9. IdsApart' BY <1>1, <1>2, <1>4, <1>5 DEF Tables, TablesType, IdsApart, MgmtNames
<1>10. TablesAgree'
  <2>1. \A t \in Slots : fds'[t] # NoFd => handlers'[fds'[t].id] = fds'[t].sub
    BY <1>1, <1>2, <1>5, <1>6 DEF Tables, TablesAgree
  <2>2. \A i \in Ids : handlers'[i] # NoSub => \E t \in Slots : fds'[t] # NoFd /\ fds'[t].id = i
    BY <1>5, <1>6, <1>7, NoBaseValueAssumption DEF Tables, TablesAgree
  <2>3. \A i \in Ids : files'[i] # NoUser <=> handlers'[i] = "main"
    BY <1>5, RandAssumption DEF Tables, TablesAgree
  <2> QED BY <2>1, <2>2, <2>3 DEF TablesAgree
<1>11. IdsUnique' BY <1>1, <1>6 DEF Tables, IdsUnique
<1> QED BY <1>8, <1>9, <1>10, <1>11 DEF Tables

\* ... when a management scheme is reached by dup, ...
LEMMA DupTables ==
    ASSUME FewRequests, Tables, served < MaxRequests, served' = served + 1,
           NEW t \in Slots, fds[t] = NoFd, NEW name \in MgmtNames,
           handlers' = [handlers EXCEPT ![next_mgmt_id] = name],
           fds' = [fds EXCEPT ![t] = [id |-> next_mgmt_id, sub |-> name]],
           next_mgmt_id' = NextMgmt(next_mgmt_id),
           UNCHANGED <<files, next_fd>>
    PROVE  Tables'
<1>1. /\ next_fd \in Nat /\ next_mgmt_id \in Nat /\ served \in Nat
      /\ FirstMgmt \in Nat /\ FirstMgmt < IdMod /\ MaxRequests \in Nat
      /\ next_fd < next_mgmt_id /\ next_mgmt_id <= FirstMgmt
      /\ handlers[next_mgmt_id] = NoSub
      /\ \A s \in Slots : fds[s] # NoFd => fds[s].id \in Ids /\ fds[s].id # next_mgmt_id
  BY NextIds
<1>2. next_mgmt_id \in Ids /\ next_mgmt_id - 1 \in Ids /\ IdMod \in Nat
  BY <1>1, RandAssumption DEF Ids
<1>3. next_mgmt_id' = next_mgmt_id - 1 BY <1>1, <1>2, NextMgmtIsPrevious
<1>4. \A i \in Ids : handlers'[i] = IF i = next_mgmt_id THEN name ELSE handlers[i]
  BY <1>2 DEF Tables, TablesType
<1>5. \A s \in Slots : fds'[s] = IF s = t THEN [id |-> next_mgmt_id, sub |-> name] ELSE fds[s]
  BY DEF Tables, TablesType
<1>6. [id |-> next_mgmt_id, sub |-> name] \in [id: Ids, sub: Subs] BY <1>2 DEF Subs
<1>7. name # NoSub /\ name # "main" BY NoBaseValueAssumption DEF Subs, MgmtNames
<1>8. TablesType' BY <1>1, <1>2, <1>3, <1>6 DEF Tables, TablesType, Subs
<1>9. IdsApart' BY <1>1, <1>2, <1>3, <1>4, <1>7 DEF Tables, TablesType, IdsApart, Ids
<1>10. TablesAgree'
  <2>1. \A s \in Slots : fds'[s] # NoFd => handlers'[fds'[s].id] = fds'[s].sub
    BY <1>1, <1>2, <1>4, <1>5 DEF Tables, TablesAgree
  <2>2. \A i \in Ids : handlers'[i] # NoSub => \E s \in Slots : fds'[s] # NoFd /\ fds'[s].id = i
    BY <1>4, <1>5, <1>6, NoBaseValueAssumption DEF Tables, TablesAgree
  <2>3. \A i \in Ids : files'[i] # NoUser <=> handlers'[i] = "main"
    BY <1>1, <1>4, <1>7, NoBaseValueAssumption DEF Tables, TablesAgree, Subs
  <2> QED BY <2>1, <2>2, <2>3 DEF TablesAgree
<1>11. IdsUnique' BY <1>1, <1>5 DEF Tables, IdsUnique
<1> QED BY <1>8, <1>9, <1>10, <1>11 DEF Tables

\* ... and when a descriptor is closed.
LEMMA CloseTables ==
    ASSUME Tables, served < MaxRequests, served' = served + 1,
           NEW s \in Slots, fds[s] # NoFd,
           files' = IF handlers[fds[s].id] = "main" THEN Closed(files, fds[s].id) ELSE files,
           handlers' = Unhandled(fds[s].id),
           fds' = [fds EXCEPT ![s] = NoFd],
           UNCHANGED <<next_fd, next_mgmt_id>>
    PROVE  Tables'
<1> DEFINE id == fds[s].id
<1>1. id \in Ids /\ served' \in 0 .. MaxRequests
  BY BaseAssumption DEF Tables, TablesType
<1> HIDE DEF id
<1>2. \A i \in Ids : handlers'[i] = IF i = id THEN NoSub ELSE handlers[i]
  BY DEF Unhandled, Tables, TablesType, id
<1>3. \A i \in Ids : files'[i] = IF i = id /\ handlers[id] = "main" THEN NoUser ELSE files[i]
  BY <1>1 DEF Closed, Tables, TablesType, OpenFiles, id
<1>4. \A t \in Slots : fds'[t] = IF t = s THEN NoFd ELSE fds[t]
  BY DEF Tables, TablesType
<1>5. TablesType' BY <1>1 DEF Tables, TablesType, OpenFiles, Closed, Unhandled, id
<1>6. IdsApart'
  BY <1>1, <1>2, BaseAssumption, NoBaseValueAssumption DEF Tables, TablesType, IdsApart, Subs, Ids
<1>7. \A t \in Slots : t # s /\ fds[t] # NoFd => fds[t].id # id /\ fds[t].id \in Ids
  BY DEF Tables, TablesType, IdsUnique, id
<1>8. TablesAgree'
  <2>1. \A t \in Slots : fds'[t] # NoFd => handlers'[fds'[t].id] = fds'[t].sub
    BY <1>2, <1>4, <1>7 DEF Tables, TablesAgree
  <2>2. \A i \in Ids : handlers'[i] # NoSub => \E t \in Slots : fds'[t] # NoFd /\ fds'[t].id = i
    BY <1>2, <1>4 DEF Tables, TablesAgree, id
  <2>3. \A i \in Ids : files'[i] # NoUser <=> handlers'[i] = "main"
    BY <1>1, <1>2, <1>3, NoBaseValueAssumption DEF Tables, TablesAgree, Subs
  <2> QED BY <2>1, <2>2, <2>3 DEF TablesAgree
<1>9. IdsUnique' BY <1>4 DEF Tables, IdsUnique
<1> QED BY <1>5, <1>6, <1>8, <1>9 DEF Tables

\* They start in order.
LEMMA TablesStart == Init => Tables
BY BaseAssumption, NoBaseValueAssumption, RandAssumption
   DEF Init, Tables, TablesType, IdsApart, TablesAgree, IdsUnique, OpenFiles, Ids, Subs

\* So each request leaves them in order.
LEMMA TablesStep ==
    ASSUME FewRequests, Tables, [Next]_vars PROVE Tables'
<1>1. Request => served < MaxRequests /\ served' = served + 1 /\ served' \in 0 .. MaxRequests
  BY BaseAssumption DEF Request, Tables, TablesType
<1>2. ASSUME NEW s \in Slots, Open(s) PROVE Tables'
  <2>1. CASE UNCHANGED <<files, next_fd, handlers, fds>>
    BY <1>1, <1>2, <2>1, SameTables DEF Open
  <2>2. CASE \E u \in Users :
               /\ files' = Opened(files, next_fd, u)
               /\ next_fd' = NextFd(files', next_fd)
               /\ handlers' = [handlers EXCEPT ![next_fd] = "main"]
               /\ fds' = [fds EXCEPT ![s] = [id |-> next_fd, sub |-> "main"]]
    BY <1>1, <1>2, <2>2, OpenTables DEF Open
  <2> QED BY <1>2, <2>1, <2>2 DEF Open
<1>3. ASSUME NEW s \in Slots, NEW t \in Slots, DupMgmt(s, t) PROVE Tables'
  BY <1>1, <1>3, DupTables DEF DupMgmt
<1>4. ASSUME NEW s \in Slots, DupFails(s) PROVE Tables'
  BY <1>1, <1>4, SameTables DEF DupFails
<1>5. ASSUME NEW s \in Slots, Read(s) PROVE Tables'
  BY <1>1, <1>5, SameTables DEF Read
<1>6. ASSUME NEW s \in Slots, Write(s) PROVE Tables'
  BY <1>1, <1>6, SameTables DEF Write
<1>7. ASSUME NEW s \in Slots, Panic(s) PROVE Tables'
  BY <1>1, <1>7, SameTables DEF Panic
<1>8. ASSUME NEW s \in Slots, Close(s) PROVE Tables'
  <2>1. files' = IF handlers[fds[s].id] = "main" THEN Closed(files, fds[s].id) ELSE files
    BY <1>8, NoBaseValueAssumption DEF Close, Subs
  <2> QED BY <1>1, <1>8, <2>1, CloseTables DEF Close
<1>9. CASE UNCHANGED vars
  BY <1>9, SameTables DEF vars, Tables, TablesType
<1> QED BY <1>2, <1>3, <1>4, <1>5, <1>6, <1>7, <1>8, <1>9 DEF Next

\* Whatever the order of opens, dups and closes, the tables are in order.
LEMMA TablesAlways == FewRequests => (Spec => []Tables)
<1> SUFFICES ASSUME FewRequests PROVE Spec => []Tables
  OBVIOUS
<1>1. Tables /\ [Next]_vars => Tables' BY TablesStep
<1> QED BY <1>1, TablesStart, PTL DEF Spec

\* The service and its clients agree on every open descriptor: a request reaches the
\* scheme its descriptor was opened for, and nothing is kept of a closed one.
THEOREM TablesCorrect == FewRequests => (Spec => []TablesAgree)
<1>1. Tables => TablesAgree BY DEF Tables
<1> QED BY <1>1, TablesAlways, PTL

\* No id is given to two descriptors.
THEOREM IdsCorrect == FewRequests => (Spec => []IdsUnique)
<1>1. Tables => IdsUnique BY DEF Tables
<1> QED BY <1>1, TablesAlways, PTL

-----------------------------------------------------------------------------
(* Types of the counters, the snapshot and the flags.                      *)

CountsType ==
    /\ management \in Counts /\ requests \in Counts
    /\ due \in Counts /\ late \in Counts
    /\ control \in [stop: BOOLEAN, clear: BOOLEAN]
    /\ message \in {"starting!", "message cleared"} \cup Texts
    /\ reply \in [op: {"none", "open", "dup", "read", "write", "close"},
                  sub: Subs \cup {NoSub}, ok: BOOLEAN, counts: Counts \cup {NoCounts}]
    /\ alive \in BOOLEAN

\* They start with their types, ...
LEMMA CountsStart == Init => CountsType
<1>1. Zero \in Counts BY DEF Zero, Counts
<1> QED BY <1>1 DEF Init, CountsType, Subs

\* ... and each request keeps them.
LEMMA CountsStep ==
    ASSUME Tables, CountsType, [Next]_vars PROVE CountsType'
<1>10. /\ Zero \in Counts /\ Forged \in Counts
       /\ {"reads", "writes", "opens", "closes", "dups"} \subseteq Kinds
  BY NoBaseValueAssumption DEF Zero, Counts, Kinds
<1>0. /\ management \in Counts /\ requests \in Counts /\ due \in Counts /\ late \in Counts
      /\ Updated[1] \in Counts /\ Updated[2] \in Counts
  BY UpdatedValues DEF CountsType
<1>00. \A c \in Counts, kind \in {"reads", "writes", "opens", "closes", "dups"}, ok \in BOOLEAN :
         \A sub : Counted(c, sub, kind, ok) \in Counts
  BY <1>10, CountedValues
<1>1. \A s \in Slots : fds[s] # NoFd => fds[s].sub \in Subs
  BY DEF Tables, TablesType
<1>2. ASSUME NEW s \in Slots, Open(s) PROVE CountsType'
  <2>1. CASE OpenCounts(TRUE)
    BY <1>0, <1>00, <1>2, <2>1 DEF Open, OpenCounts, Answer, CountsType, Subs
  <2>2. CASE OpenCounts(FALSE)
    BY <1>0, <1>00, <1>2, <2>2 DEF Open, OpenCounts, Answer, CountsType, Subs
  <2> QED BY <1>2, <2>1, <2>2 DEF Open
<1>3. ASSUME NEW s \in Slots, NEW t \in Slots, DupMgmt(s, t) PROVE CountsType'
  <2>1. management' \in Counts /\ due' \in Counts
    BY <1>10, <1>0, <1>3, CountedValues DEF DupMgmt, Answer
  <2> QED BY <1>0, <1>1, <1>3, <2>1 DEF DupMgmt, Answer, Update, CountsType
<1>4. ASSUME NEW s \in Slots, DupFails(s) PROVE CountsType'
  <2>1. CASE UNCHANGED <<management, requests, control, message>>
    BY <1>1, <1>4, <2>1 DEF DupFails, CountsType
  <2>2. CASE management' = Updated[1] /\ requests' = Updated[2] /\ Update
    BY <1>0, <1>1, <1>4, <2>2 DEF DupFails, Update, CountsType
  <2> QED BY <1>4, <2>1, <2>2 DEF DupFails
<1>5. ASSUME NEW s \in Slots, Read(s) PROVE CountsType'
  <2> DEFINE sub == handlers[fds[s].id]
             ok == sub # NoSub /\ (sub = "main" => CanPerform(files, fds[s].id, "read"))
  <2>1. ok \in BOOLEAN OBVIOUS
  <2>2. /\ management' = Counted(Updated[1], sub, "reads", ok)
        /\ due' = Counted(due, fds[s].sub, "reads", ok)
        /\ requests' = Updated[2] /\ Update /\ UNCHANGED <<alive, late>>
        /\ reply' = [op |-> "read", sub |-> fds[s].sub, ok |-> ok,
                     counts |-> IF sub = "request_count" THEN Updated[2] ELSE NoCounts]
        /\ fds[s].sub \in Subs
    BY <1>1, <1>5 DEF Read
  <2> HIDE DEF ok, sub
  <2>3. management' \in Counts /\ due' \in Counts
    BY <1>10, <1>0, <2>1, <2>2, CountedValues
  <2> QED BY <1>0, <2>1, <2>2, <2>3 DEF Update, CountsType
<1>6. ASSUME NEW s \in Slots, Write(s) PROVE CountsType'
  <2>1. PICK text \in Texts, sub \in Subs \cup {NoSub}, ok \in BOOLEAN :
          /\ management' = Counted(Updated[1], sub, "writes", ok)
          /\ WriteMgmt(sub, text)
          /\ reply' = [op |-> "write", sub |-> fds[s].sub, ok |-> ok, counts |-> NoCounts]
          /\ due' \in {Zero, Counted(due, fds[s].sub, "writes", ok)}
          /\ late' \in {Zero, late}
          /\ fds[s].sub \in Subs /\ UNCHANGED alive
    BY <1>1, <1>6 DEF Write, Tables, TablesType
  <2>2. management' \in Counts /\ due' \in Counts /\ late' \in Counts
    BY <1>10, <1>0, <1>00, <2>1
  <2> QED BY <1>10, <1>0, <2>1, <2>2 DEF WriteMgmt, CountsType
<1>7. ASSUME NEW s \in Slots, Panic(s) PROVE CountsType'
  BY <1>7 DEF Panic, CountsType
<1>8. ASSUME NEW s \in Slots, Close(s) PROVE CountsType'
  <2>1. PICK ok \in BOOLEAN, sub \in Subs \cup {NoSub} :
          /\ \/ UNCHANGED <<management, requests, control, message>>
             \/ /\ management' = Counted(Updated[1], sub, "closes", ok)
                /\ requests' = Updated[2]
                /\ Update
          /\ Answer("close", fds[s].sub, ok, "closes")
          /\ fds[s].sub \in Subs /\ UNCHANGED <<alive, late>>
    BY <1>1, <1>8 DEF Close, Tables, TablesType
  <2>2. management' \in Counts /\ due' \in Counts
    BY <1>10, <1>0, <1>00, <2>1 DEF Answer
  <2>3. CASE UNCHANGED <<management, requests, control, message>>
    BY <1>0, <2>1, <2>2, <2>3 DEF Answer, CountsType
  <2>4. CASE requests' = Updated[2] /\ Update
    BY <1>0, <2>1, <2>2, <2>4 DEF Answer, Update, CountsType
  <2> QED BY <2>1, <2>3, <2>4
<1>9. CASE UNCHANGED vars
  BY <1>9 DEF vars, CountsType
<1> QED BY <1>2, <1>3, <1>4, <1>5, <1>6, <1>7, <1>8, <1>9 DEF Next

LEMMA CountsAlways == FewRequests => (Spec => []CountsType)
<1> SUFFICES ASSUME FewRequests PROVE Spec => []CountsType
  OBVIOUS
<1>1. Tables /\ CountsType /\ [Next]_vars => CountsType' BY CountsStep
<1> QED BY <1>1, CountsStart, TablesAlways, PTL DEF Spec

\* Every variable has its type, and the ids of the main and the management schemes
\* do not meet.
THEOREM TypeCorrect == FewRequests => (Spec => []TypeInv)
<1>1. Tables /\ CountsType => TypeInv
  BY DEF Tables, TablesType, CountsType, TypeInv, TypeOK
<1> QED BY <1>1, TablesAlways, CountsAlways, PTL

-----------------------------------------------------------------------------
(* What a read of request_count answers.                                   *)

\* The counters and the requests that came too early for a pending clear add up to
\* all requests counted since; while the clear is pending all of them are early.
Account ==
    /\ control.clear => late = due
    /\ ~control.clear => \A k \in Kinds : management[k] + late[k] = due[k]
    /\ \A k \in Kinds : management[k] <= served
    /\ StatsAccount

\* A request that is counted after an update keeps the account: the counters are then
\* Updated[1], and no clear is pending.
LEMMA AfterUpdate ==
    ASSUME Tables, CountsType, Account, served' = served + 1,
           NEW sub, NEW kind \in Kinds, NEW ok \in BOOLEAN,
           management' = Counted(Updated[1], sub, kind, ok),
           due' = Counted(due, sub, kind, ok), UNCHANGED late
    PROVE  /\ \A k \in Kinds : management'[k] + late'[k] = due'[k]
           /\ \A k \in Kinds : management'[k] <= served'
<1>1. management \in Counts /\ late \in Counts /\ due \in Counts
  BY DEF CountsType
<1>2. served \in Nat BY BaseAssumption DEF Tables, TablesType
<1>3. /\ Updated[1] \in Counts
      /\ Updated[1] = IF control.clear THEN Zero ELSE management
  BY UpdatedValues DEF CountsType
<1>4. \A k \in Kinds : Updated[1][k] + late[k] = due[k] /\ Updated[1][k] <= served
  BY <1>1, <1>2, <1>3 DEF Account, Zero, Counts
<1> DEFINE u == Updated[1]
<1>5. u \in Counts /\ \A k \in Kinds : u[k] + late[k] = due[k] /\ u[k] <= served
  BY <1>3, <1>4
<1>6. management' = Counted(u, sub, kind, ok) OBVIOUS
<1> HIDE DEF u
<1>7. \A k \in Kinds : Counted(u, sub, kind, ok)[k] + late[k] = Counted(due, sub, kind, ok)[k]
  BY ONLY <1>1, <1>5, CountedSum, kind \in Kinds, ok \in BOOLEAN
<1>8. \A k \in Kinds : Counted(u, sub, kind, ok)[k] \in {u[k], u[k] + 1}
  BY <1>5, CountedValues
<1>9. \A k \in Kinds : Counted(u, sub, kind, ok)[k] <= served + 1
  BY <1>2, <1>5, <1>8 DEF Counts
<1> QED BY <1>6, <1>7, <1>9

LEMMA AccountStart == Init => Account
  BY DEF Init, Account, StatsAccount, Zero

\* Every request keeps the account: one that is counted while a clear is pending counts
\* towards late, any other towards the counters.
LEMMA AccountStep ==
    ASSUME FewRequests, Tables, CountsType, Account, [Next]_vars
    PROVE  Account'
<1>0. /\ management \in Counts /\ late \in Counts /\ due \in Counts
      /\ served \in Nat /\ served <= MaxRequests /\ Zero \in Counts
      /\ {"reads", "writes", "opens", "closes", "dups"} \subseteq Kinds
  <2>1. management \in Counts /\ late \in Counts /\ due \in Counts BY DEF CountsType
  <2>2. served \in Nat /\ served <= MaxRequests BY BaseAssumption DEF Tables, TablesType
  <2>3. Zero \in Counts BY DEF Zero, Counts
  <2>4. {"reads", "writes", "opens", "closes", "dups"} \subseteq Kinds BY DEF Kinds
  <2> QED BY <2>1, <2>2, <2>3, <2>4
<1>1. Request => served' = served + 1 /\ served < MaxRequests
  BY DEF Request
<1>2. \A s \in Slots : fds[s] # NoFd => handlers[fds[s].id] = fds[s].sub
  BY DEF Tables, TablesAgree
<1>3. ASSUME NEW s \in Slots, NEW ok \in BOOLEAN, Open(s), OpenCounts(ok) PROVE Account'
  <2>1. /\ management' = Counted(management, "main", "opens", ok)
        /\ late' = IF control.clear THEN Counted(late, "main", "opens", ok) ELSE late
        /\ due' = Counted(due, "main", "opens", ok)
        /\ reply'.counts = NoCounts /\ UNCHANGED control
        /\ served' = served + 1
    BY <1>1, <1>3 DEF Open, OpenCounts, Answer
  <2>2. \A k \in Kinds : management'[k] \in {management[k], management[k] + 1}
    BY <1>0, <2>1, CountedValues
  <2>3. \A k \in Kinds : management'[k] <= served'
    BY <1>0, <2>1, <2>2 DEF Account, Counts
  <2>4. CASE control.clear
    BY <2>1, <2>3, <2>4 DEF Account, StatsAccount
  <2>5. CASE ~control.clear
    <3>1. \A k \in Kinds : management[k] + late[k] = due[k] BY <2>5 DEF Account
    <3>2. \A k \in Kinds : management'[k] + late[k] = due'[k]
      BY <1>0, <2>1, <3>1, CountedSum
    <3> QED BY <2>1, <2>3, <2>5, <3>2 DEF Account, StatsAccount
  <2> QED BY <2>4, <2>5
<1>4. ASSUME NEW s \in Slots, NEW t \in Slots, DupMgmt(s, t) PROVE Account'
  <2>1. served < MaxRequests /\ served' = served + 1 /\ fds[s] # NoFd
    BY <1>1, <1>4 DEF DupMgmt
  <2>2. fds[s].id \in Ids /\ fds[s].id # next_mgmt_id BY <2>1, NextIds
  <2>3. PICK name : handlers' = [handlers EXCEPT ![next_mgmt_id] = name]
    BY <1>4 DEF DupMgmt
  <2>4. handlers'[fds[s].id] = fds[s].sub
    BY <1>2, <2>1, <2>2, <2>3 DEF Tables, TablesType
  <2>5. /\ \A k \in Kinds : management'[k] + late'[k] = due'[k]
        /\ \A k \in Kinds : management'[k] <= served'
    BY <1>0, <1>4, <2>1, <2>4, AfterUpdate DEF DupMgmt, Answer
  <2>6. ~control'.clear /\ reply'.counts = NoCounts
    BY <1>4 DEF DupMgmt, Update, Answer
  <2> QED BY <2>5, <2>6 DEF Account, StatsAccount
<1>5. ASSUME NEW s \in Slots, DupFails(s) PROVE Account'
  <2>1. reply'.counts = NoCounts /\ served' = served + 1 /\ UNCHANGED <<due, late>>
    BY <1>1, <1>5 DEF DupFails
  <2>2. CASE UNCHANGED <<management, control>>
    BY <1>0, <2>1, <2>2 DEF Account, StatsAccount, Counts
  <2>3. CASE management' = Updated[1] /\ Update
    <3>1. Updated[1] = IF control.clear THEN Zero ELSE management
      BY UpdatedValues DEF CountsType
    <3>2. ~control'.clear BY <2>3 DEF Update
    <3>3. /\ \A k \in Kinds : management'[k] + late'[k] = due'[k]
          /\ \A k \in Kinds : management'[k] <= served'
      BY <1>0, <2>1, <2>3, <3>1 DEF Account, Zero, Counts
    <3> QED BY <2>1, <3>2, <3>3 DEF Account, StatsAccount
  <2> QED BY <1>5, <2>2, <2>3 DEF DupFails
<1>6. ASSUME NEW s \in Slots, Read(s) PROVE Account'
  <2> DEFINE sub == fds[s].sub
             ok == sub # NoSub /\ (sub = "main" => CanPerform(files, fds[s].id, "read"))
  <2>1. /\ management' = Counted(Updated[1], sub, "reads", ok)
        /\ due' = Counted(due, sub, "reads", ok)
        /\ reply'.counts = IF sub = "request_count" THEN Updated[2] ELSE NoCounts
        /\ Update /\ UNCHANGED late /\ served' = served + 1
    BY <1>1, <1>2, <1>6 DEF Read
  <2>2. ok \in BOOLEAN OBVIOUS
  <2> HIDE DEF ok
  <2>3. /\ \A k \in Kinds : management'[k] + late'[k] = due'[k]
        /\ \A k \in Kinds : management'[k] <= served'
    BY <1>0, <2>1, <2>2, AfterUpdate
  <2>4. ~control'.clear /\ control'.stop = control.stop BY <2>1 DEF Update
  <2>5. StatsAccount'
    <3> SUFFICES ASSUME sub = "request_count", ~control.stop, NEW k \in Kinds
                 PROVE  Updated[2][k] = (due[k] - late[k]) % Low7
      BY <2>1, <2>4, NoBaseValueAssumption DEF StatsAccount, Counted
    <3>1. management[k] \in Nat /\ late[k] \in Nat /\ due[k] \in Nat BY <1>0 DEF Counts
    <3>2. CASE control.clear
      <4>1. Updated[2][k] = 0 BY <3>2, UpdatedValues DEF CountsType, Zero
      <4>2. due[k] - late[k] = 0 BY <3>1, <3>2 DEF Account
      <4> QED BY <4>1, <4>2, BaseAssumption
    <3>3. CASE ~control.clear
      <4>1. Updated[2][k] = management[k] % Low7 BY <3>3, UpdatedValues DEF CountsType
      <4>2. management[k] = due[k] - late[k] BY <3>1, <3>3 DEF Account
      <4> QED BY <4>1, <4>2
    <3> QED BY <3>2, <3>3
  <2> QED BY <2>3, <2>4, <2>5 DEF Account
<1>7. ASSUME NEW s \in Slots, Write(s) PROVE Account'
  <2>1. PICK text \in Texts : 
          LET sub == fds[s].sub
              ok  == /\ sub \notin {NoSub, "pid", "time_stamp"}
                     /\ sub = "main" => CanPerform(files, fds[s].id, "write")
              clears == sub = "control" /\ text = "clear"
          IN /\ management' = Counted(Updated[1], sub, "writes", ok)
             /\ WriteMgmt(sub, text)
             /\ reply' = [op |-> "write", sub |-> fds[s].sub, ok |-> ok, counts |-> NoCounts]
             /\ due' = IF clears THEN Zero ELSE Counted(due, fds[s].sub, "writes", ok)
             /\ late' = IF clears THEN Zero ELSE late
    BY <1>2, <1>7 DEF Write
  <2> DEFINE sub == fds[s].sub
             ok  == /\ sub \notin {NoSub, "pid", "time_stamp"}
                    /\ sub = "main" => CanPerform(files, fds[s].id, "write")
             clears == sub = "control" /\ text = "clear"
  <2>2. /\ management' = Counted(Updated[1], sub, "writes", ok)
        /\ reply'.counts = NoCounts /\ served' = served + 1
        /\ control'.clear = clears
        /\ due' = IF clears THEN Zero ELSE Counted(due, sub, "writes", ok)
        /\ late' = IF clears THEN Zero ELSE late
        /\ ok \in BOOLEAN
    BY <1>1, <1>7, <2>1 DEF WriteMgmt, Write
  <2>3. CASE ~clears
    <3> HIDE DEF ok
    <3>1. /\ \A k \in Kinds : management'[k] + late'[k] = due'[k]
          /\ \A k \in Kinds : management'[k] <= served'
      BY <1>0, <2>2, <2>3, AfterUpdate
    <3> QED BY <2>2, <2>3, <3>1 DEF Account, StatsAccount
  <2>4. CASE clears
    <3>1. management' = Updated[1] BY <2>2, <2>4 DEF Counted
    <3>2. Updated[1] = IF control.clear THEN Zero ELSE management
      BY UpdatedValues DEF CountsType
    <3>3. \A k \in Kinds : management'[k] <= served'
      <4>1. served' = served + 1 BY <2>2
      <4>2. CASE control.clear BY <1>0, <3>1, <3>2, <4>1, <4>2 DEF Zero
      <4>3. CASE ~control.clear BY <1>0, <3>1, <3>2, <4>1, <4>3 DEF Account, Counts
      <4> QED BY <4>2, <4>3
    <3> QED BY <2>2, <2>4, <3>3 DEF Account, StatsAccount
  <2> QED BY <2>3, <2>4
<1>8. ASSUME NEW s \in Slots, Panic(s) PROVE Account'
  BY <1>0, <1>1, <1>8 DEF Panic, Account, StatsAccount, Counts
<1>9. ASSUME NEW s \in Slots, Close(s) PROVE Account'
  <2> DEFINE sub == fds[s].sub
             ok == sub = "control" \/ (sub = "main" /\ CloseOk(files, fds[s].id))
  <2>1. sub # NoSub
    BY <1>9, NoBaseValueAssumption DEF Close, Tables, TablesType
  <2>2. /\ management' = Counted(Updated[1], sub, "closes", ok)
        /\ due' = Counted(due, sub, "closes", ok)
        /\ reply'.counts = NoCounts
        /\ Update /\ UNCHANGED late /\ served' = served + 1
    BY <1>1, <1>2, <1>9, <2>1 DEF Close, Answer
  <2>3. ok \in BOOLEAN OBVIOUS
  <2> HIDE DEF ok
  <2>4. /\ \A k \in Kinds : management'[k] + late'[k] = due'[k]
        /\ \A k \in Kinds : management'[k] <= served'
    BY <1>0, <2>2, <2>3, AfterUpdate
  <2>5. ~control'.clear BY <2>2 DEF Update
  <2> QED BY <2>2, <2>4, <2>5 DEF Account, StatsAccount
<1>10. CASE UNCHANGED vars
  BY <1>10 DEF vars, Account, StatsAccount
<1>11. ASSUME NEW s \in Slots, Open(s) PROVE OpenCounts(TRUE) \/ OpenCounts(FALSE)
  BY <1>11 DEF Open
<1> QED BY <1>3, <1>4, <1>5, <1>6, <1>7, <1>8, <1>9, <1>10, <1>11 DEF Next

\* Unless a stop has been written, a client that reads request_count is told, modulo what
\* seven bytes hold, the number of all counted requests since the last clear, but for the
\* opens between the clear and the next other request (update(), lib.rs).
THEOREM StatsCorrect == FewRequests => (Spec => []StatsAccount)
<1> SUFFICES ASSUME FewRequests PROVE Spec => []StatsAccount
  OBVIOUS
<1>1. Tables /\ CountsType /\ Account /\ [Next]_vars => Account' BY AccountStep
<1>2. Account => StatsAccount BY DEF Account
<1> QED BY <1>1, <1>2, AccountStart, TablesAlways, CountsAlways, PTL DEF Spec

-----------------------------------------------------------------------------
(* The numbers of gtrand's open files, for any number of opens.            *)

\* A set of numbers has a least one.
LEMMA Least ==
    ASSUME NEW S \in SUBSET Nat, S # {}
    PROVE  \E x \in S : \A y \in S : x <= y
<1> DEFINE R == StrictSubsetOrdering(Nat)
           T == {0 .. x : x \in S}
<1>1. IsWellFoundedOn(R, FiniteSubsetsOf(Nat)) BY FS_StrictSubsetOrderingWellFounded
<1>2. \A x \in S : 0 .. x \in FiniteSubsetsOf(Nat) BY FS_Interval DEF FiniteSubsetsOf
<1>3. T \subseteq FiniteSubsetsOf(Nat) /\ T # {} BY <1>2
<1>4. \A a, b \in SUBSET Nat : <<a, b>> \in R <=> a \subseteq b /\ a # b
  BY DEF StrictSubsetOrdering
<1> HIDE DEF R
<1>5. PICK t \in T : \A u \in T : <<u, t>> \notin R
  <2> HIDE DEF T
  <2> QED BY <1>1, <1>3, WFMin
<1>6. PICK x \in S : t = 0 .. x BY <1>5
<1>7. ASSUME NEW y \in S PROVE x <= y
  <2> SUFFICES ASSUME y < x PROVE FALSE
    OBVIOUS
  <2>1. 0 .. y \in T /\ 0 .. y \subseteq 0 .. x /\ x \notin 0 .. y /\ x \in 0 .. x OBVIOUS
  <2>2. 0 .. y \in SUBSET Nat /\ 0 .. x \in SUBSET Nat /\ 0 .. y # 0 .. x BY <2>1
  <2>3. <<0 .. y, 0 .. x>> \in R BY <1>4, <2>1, <2>2
  <2> QED BY <1>5, <1>6, <2>1, <2>3
<1> QED BY <1>7

\* Adding one after the other, modulo IdMod, reaches every number.
LEMMA Wraps ==
    ASSUME NEW fd \in Ids
    PROVE  /\ \A k \in Nat : (fd + k) % IdMod \in Ids
           /\ \A i \in Ids : \E k \in 1 .. IdMod : (fd + k) % IdMod = i
<1>1. IdMod \in Nat \ {0} /\ fd \in 0 .. IdMod - 1 BY RandAssumption DEF Ids
<1>2. \A k \in Nat : (fd + k) % IdMod \in 0 .. IdMod - 1 BY <1>1
<1>3. ASSUME NEW i \in 0 .. IdMod - 1 PROVE \E k \in 1 .. IdMod : (fd + k) % IdMod = i
  <2>1. CASE i > fd
    <3>1. i - fd \in 1 .. IdMod /\ fd + (i - fd) = i BY <1>1, <2>1
    <3>2. i % IdMod = i BY <1>1
    <3> QED BY <3>1, <3>2
  <2>2. CASE i <= fd
    <3> DEFINE k == i - fd + IdMod
    <3>1. k \in 1 .. IdMod /\ fd + k = i + IdMod BY <1>1, <2>2
    <3>2. (i + IdMod) % IdMod = i BY <1>1
    <3> QED BY <3>1, <3>2
  <2> QED BY <1>1, <2>1, <2>2
<1> QED BY <1>2, <1>3 DEF Ids

\* The loop of an open ends at a number that is not in use, if there is one.
LEMMA NextFdIsFree ==
    ASSUME NEW table \in OpenFiles, NEW fd \in Ids, \E i \in Ids : table[i] = NoUser
    PROVE  NextFd(table, fd) \in Ids /\ table[NextFd(table, fd)] = NoUser
<1> DEFINE at(k) == table[(fd + k) % IdMod]
           free == {k \in 1 .. IdMod : at(k) = NoUser}
           P(k) == at(k) = NoUser /\ \A j \in 1 .. k - 1 : at(j) # NoUser
<1>1. IdMod \in Nat \ {0} BY RandAssumption
<1>2. free # {} /\ free \in SUBSET Nat
  <2>1. PICK i \in Ids : table[i] = NoUser OBVIOUS
  <2>2. PICK k \in 1 .. IdMod : (fd + k) % IdMod = i BY Wraps
  <2>3. at(k) = NoUser BY <2>1, <2>2
  <2> HIDE DEF at
  <2> QED BY <1>1, <2>3
<1>3. PICK k \in free : \A y \in free : k <= y
  <2> HIDE DEF free
  <2> QED BY <1>2, Least
<1>4. k \in 1 .. IdMod /\ P(k)
  <2>1. k \in 1 .. IdMod /\ at(k) = NoUser OBVIOUS
  <2> HIDE DEF at
  <2>2. ASSUME NEW j \in 1 .. k - 1 PROVE at(j) # NoUser
    <3>1. j \in 1 .. IdMod /\ ~(k <= j) BY <1>1, <2>1
    <3> QED BY <1>3, <3>1
  <2> QED BY <2>1, <2>2
<1> HIDE DEF P
<1> DEFINE step == CHOOSE n \in 1 .. IdMod : P(n)
<1>5. step \in 1 .. IdMod /\ P(step) BY <1>4
<1>6. NextFd(table, fd) = (fd + step) % IdMod BY DEF NextFd, P
<1> HIDE DEF step
<1>7. step \in Nat BY <1>1, <1>5
<1>8. (fd + step) % IdMod \in Ids BY <1>7, Wraps
<1> QED BY <1>5, <1>6, <1>8 DEF P

\* Some number is in no use, and the one the next open takes is.
SomeFree == \E i \in Ids : files[i] = NoUser
NextFree == next_fd \in Ids /\ files[next_fd] = NoUser

\* An open of gtrand (open, main.rs:230 of gtrand) never takes the number of a file that is
\* open, however often next_fd has wrapped and whatever the numbers of the management
\* schemes, as long as not all numbers are in use: then its loop would never end.
THEOREM FilesNotTaken == Spec => ([]SomeFree => []NextFree)
<1> DEFINE FilesInv == files \in OpenFiles /\ NextFree
<1>1. Init => FilesInv BY RandAssumption DEF Init, NextFree, OpenFiles, Ids
<1>2. FilesInv /\ SomeFree' /\ [Next]_vars => FilesInv'
  <2> SUFFICES ASSUME FilesInv, SomeFree', [Next]_vars PROVE FilesInv'
    OBVIOUS
  <2>1. ASSUME NEW s \in Slots, Open(s) PROVE FilesInv'
    <3>1. CASE UNCHANGED <<files, next_fd>> BY <3>1 DEF NextFree
    <3>2. CASE \E u \in Users : files' = Opened(files, next_fd, u) /\ next_fd' = NextFd(files', next_fd)
      <4>1. files' \in OpenFiles BY <3>2 DEF Opened, OpenFiles
      <4> QED BY <3>2, <4>1, NextFdIsFree DEF NextFree, SomeFree
    <3> QED BY <2>1, <3>1, <3>2 DEF Open
  <2>2. ASSUME NEW s \in Slots, Close(s) PROVE FilesInv'
    <3>1. next_fd' = next_fd /\ (files' = files \/ files' = Closed(files, fds[s].id))
      BY <2>2 DEF Close
    <3> QED BY <3>1 DEF NextFree, Closed, OpenFiles
  <2>3. CASE UNCHANGED <<files, next_fd>> BY <2>3 DEF NextFree
  <2>4. \/ \E s \in Slots : Open(s) \/ Close(s)
        \/ UNCHANGED <<files, next_fd>>
    BY DEF Next, vars, DupFails, Read, Write, Panic, DupMgmt
  <2> QED BY <2>1, <2>2, <2>3, <2>4
<1>3. FilesInv => NextFree OBVIOUS
<1> HIDE DEF FilesInv
<1> QED BY <1>1, <1>2, <1>3, PTL DEF Spec
=============================================================================
