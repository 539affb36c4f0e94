------------------------ MODULE CommandChannel_proofs ------------------------
(***************************************************************************)
(* Proofs about CommandChannel: its type invariant, that a response        *)
(* reaches one client, and that the channel implements the safety part of  *)
(* CommandAnswers, for any number of clients, commands and sizes.          *)
(***************************************************************************)
EXTENDS CommandChannel, SequenceTheorems, TLAPS

\* The monitor has a response for the command client c waits for.
Sure(c) == Head(plan[c]) \notin Unknown \cup Unencodable

\* Client c has read the first bytes of some response.
Holds(c) == got[c] # Garbled /\ got[c] # Nothing

\* Response n is with client c: it was shown there, or begun.
Owns(c, n) == told[c] = n \/ (Holds(c) /\ got[c].of.no = n)

\* The pending command is the last one, and no response is newer than it or as new.
BufferInv ==
    /\ response_buffer.no <= count
    /\ cmd # NoCmd => cmd.no = count /\ response_buffer.no < count
    /\ response_buffer # NoResponse => response_buffer.no > 0 /\ response_buffer.size > 0

\* A client reads on behalf of a command, and once that command has been evaluated, no
\* older response is in the buffer, if it has one at all.
ReaderInv ==
    \A c \in Clients :
        /\ at[c] = "read" => no[c] > 0
        /\ at[c] # "read" => got[c] = Nothing
        /\ at[c] = "read" /\ cmd # NoCmd /\ cmd.no = no[c] =>
             cmd.op = Head(plan[c]) /\ got[c] = Nothing
        /\ at[c] = "read" /\ Sure(c) /\ (cmd # NoCmd => cmd.no # no[c]) =>
             response_buffer.no >= no[c]

\* What a client has read is of a response not newer than the one in the buffer, and
\* not older than its command.
HeldInv ==
    \A c \in Clients : Holds(c) =>
        /\ got[c].of.no > 0 /\ got[c].of.no <= response_buffer.no
        /\ got[c].len > 0
        /\ got[c].of.no = response_buffer.no =>
             got[c].of = response_buffer /\ got[c].len <= read_index
        /\ Sure(c) => got[c].of.no >= no[c]

\* A response is with one client at most, and the one in the buffer with none before its
\* first bytes are read.
OwnerInv ==
    /\ \A c, d \in Clients : \A n \in 1 .. count : Owns(c, n) /\ Owns(d, n) => c = d
    /\ \A c \in Clients : /\ told[c] <= response_buffer.no
                          /\ told[c] > 0 /\ told[c] = response_buffer.no => read_index > 0

\* A client that is alone has read all that is read of the response to its command.
AloneInv ==
    \A c \in Clients : alone[c] =>
        /\ at[c] = "read" /\ \A d \in Clients \ {c} : at[d] # "read"
        /\ cmd # NoCmd => cmd.no = no[c]
        /\ Sure(c) /\ cmd = NoCmd =>
             /\ response_buffer.no = no[c]
             /\ got[c] = IF read_index = 0 THEN Nothing
                         ELSE [of |-> response_buffer, len |-> read_index]

ChannelInv == TypeInv /\ BufferInv /\ ReaderInv /\ HeldInv /\ OwnerInv /\ AloneInv

-----------------------------------------------------------------------------
(* The operators of the model.                                             *)

\* A command is left in every program, and its commands are commands.
LEMMA HeadAndTail ==
    ASSUME NEW p \in Seq(Ops), p # <<>>
    PROVE  Head(p) \in Ops /\ Tail(p) \in Seq(Ops)
BY HeadTailProperties

LEMMA ShortPrograms ==
    ASSUME NEW a \in Ops, NEW b \in Ops, NEW c \in Ops
    PROVE  /\ <<a>> \in Seq(Ops) /\ <<a, b>> \in Seq(Ops) /\ <<a, b, c>> \in Seq(Ops)
           /\ Len(<<a>>) = 1 /\ Len(<<a, b>>) = 2 /\ Len(<<a, b, c>>) = 3
           /\ <<>> \in Seq(Ops) /\ Len(<<>>) = 0
OBVIOUS

LEMMA ProgramsType ==
    ASSUME TypeInv, NEW c \in Clients, NEW p \in Programs(c)
    PROVE  at[c] # "read" /\ p \in Seq(Ops) /\ p # <<>>
<1>0. {"start", "stop", "list", "info"} \subseteq Ops BY DEF Ops
<1>1. at[c] # "read" BY DEF Programs
<1>2. CASE p = plan[c] /\ at[c] = "write"
  BY <1>1, <1>2 DEF TypeInv, TypeOK
<1>3. CASE p \in GuiInit
  <2>1. p = <<"list">> BY <1>3 DEF GuiInit
  <2>2. Len(p) = 1 /\ p \in Seq(Ops) BY <2>1, <1>0, ShortPrograms
  <2> QED BY <1>1, <2>2
<1>4. CASE p \in CliPrograms
  <2>1. PICK op \in CliCommands : p = <<op>> BY <1>4 DEF CliPrograms
  <2>2. op \in Ops BY ChannelAssumption
  <2>3. Len(p) = 1 /\ p \in Seq(Ops) BY <2>1, <2>2, ShortPrograms
  <2>4. p # <<>> BY <2>3, EmptySeq
  <2> QED BY <1>1, <2>3, <2>4
<1>5. CASE p \in GuiPrograms
  <2>1. PICK commands \in GuiUpdates, details \in {<<>>, <<"info">>} : p = commands \o details
    BY <1>5 DEF GuiPrograms
  <2>2. commands \in Seq(Ops) /\ Len(commands) > 0
    <3>1. \/ commands = <<"list">> \/ commands = <<"stop", "list">>
          \/ commands = <<"start", "list", "list">>
      BY DEF GuiUpdates
    <3>2. CASE commands = <<"list">> BY <1>0, <3>2, ShortPrograms
    <3>3. CASE commands = <<"stop", "list">> BY <1>0, <3>3, ShortPrograms
    <3>4. CASE commands = <<"start", "list", "list">> BY <1>0, <3>4, ShortPrograms
    <3> QED BY <3>1, <3>2, <3>3, <3>4
  <2>3. details \in Seq(Ops)
    BY <1>0, ShortPrograms
  <2>4. p \in Seq(Ops) /\ Len(p) = Len(commands) + Len(details)
    BY <2>1, <2>2, <2>3, ConcatProperties
  <2>5. Len(details) \in Nat /\ Len(commands) \in Nat BY <2>2, <2>3
  <2>6. Len(p) # 0 BY <2>2, <2>4, <2>5
  <2> QED BY <1>1, <2>4, <2>6
<1> QED BY <1>2, <1>3, <1>4, <1>5 DEF Programs

\* A read takes at least one byte, and not more than are left.
LEMMA ReadSizes ==
    ASSUME NEW left \in Nat, left > 0
    PROVE  ReadSize(left) \in 1 .. left
BY ChannelAssumption DEF ReadSize

\* What a client shows is the number of the response it holds, or 0.
LEMMA ParsedValues ==
    ASSUME NEW c \in Clients, NEW n \in Parsed(got[c])
    PROVE  n = 0 \/ (Holds(c) /\ n = got[c].of.no)
BY DEF Parsed, Holds

LEMMA ValueTypes ==
    /\ NoCmd \notin Command /\ Garbled \notin Prefix /\ Nothing \in Prefix
    /\ NoResponse \in Response
BY NoChannelValueAssumption DEF Nothing, Prefix, NoResponse, Response

-----------------------------------------------------------------------------
(* The invariant.                                                          *)

LEMMA InitInv == Init => ChannelInv
<1> SUFFICES ASSUME Init PROVE ChannelInv
  OBVIOUS
<1> USE ValueTypes, ChannelAssumption DEF Init
<1>1. TypeInv
  BY DEF TypeInv, TypeOK, NoResponse
<1>2. BufferInv BY DEF BufferInv, NoResponse
<1>3. ReaderInv BY DEF ReaderInv
<1>4. HeldInv BY DEF HeldInv, Holds
<1>5. OwnerInv BY DEF OwnerInv, Owns, Holds, NoResponse
<1>6. AloneInv BY DEF AloneInv
<1> QED BY <1>1, <1>2, <1>3, <1>4, <1>5, <1>6 DEF ChannelInv

\* A client that is interrupted holds nothing any more.
LEMMA InterruptInv ==
    ASSUME ChannelInv, NEW c \in Clis, Interrupt(c) PROVE ChannelInv'
<1>0. c \in Clients BY DEF Clients
<1>1. TypeInv'
  BY <1>0, ValueTypes DEF ChannelInv, TypeInv, TypeOK, Interrupt, Advance, Forget, scheme
<1>2. BufferInv' BY DEF ChannelInv, BufferInv, Interrupt, scheme
<1>3. ReaderInv'
  BY <1>0 DEF ChannelInv, TypeInv, TypeOK, ReaderInv, Sure, Interrupt, Advance, Forget, scheme
<1>4. HeldInv'
  BY <1>0 DEF ChannelInv, TypeInv, TypeOK, HeldInv, Holds, Sure, Interrupt, Advance, Forget, scheme
<1>5. OwnerInv'
  BY <1>0 DEF ChannelInv, TypeInv, TypeOK, OwnerInv, Owns, Holds, Interrupt, Advance, Forget, scheme
<1>6. AloneInv'
  BY <1>0 DEF ChannelInv, TypeInv, TypeOK, AloneInv, Sure, Interrupt, Advance, Forget, scheme
<1> QED BY <1>1, <1>2, <1>3, <1>4, <1>5, <1>6 DEF ChannelInv

\* The response to the pending command is new: nobody holds it yet.
LEMMA EvalCmdInv == ASSUME ChannelInv, EvalCmd PROVE ChannelInv'
<1>0. /\ cmd \in Command /\ cmd.no = count /\ response_buffer.no < count /\ count \in Nat
      /\ cmd.no \in Nat \ {0} /\ cmd.op \in Ops /\ NoCmd \notin Command
      /\ response_buffer \in Response /\ response_buffer.no \in Nat
  BY ValueTypes DEF ChannelInv, TypeInv, TypeOK, BufferInv, EvalCmd, Command, Response
<1>1. CASE \E size \in Sizes[cmd.op] :
             WriteBytes([no |-> cmd.no, op |-> cmd.op, size |-> size])
  <2>0. PICK size \in Sizes[cmd.op] :
          WriteBytes([no |-> cmd.no, op |-> cmd.op, size |-> size])
    BY <1>1
  <2>1. size \in Nat \ {0} BY <1>0, <2>0, ChannelAssumption
  <2> DEFINE r == [no |-> cmd.no, op |-> cmd.op, size |-> size]
  <2>2. response_buffer' = r /\ read_index' = 0 /\ cmd' = NoCmd
    BY <2>0 DEF WriteBytes, EvalCmd
  <2>3. r \in Response /\ r.no = count /\ r.size = size /\ r # NoResponse
    BY <1>0, <2>1 DEF Response, NoResponse
  <2> HIDE DEF r
  <2>4. UNCHANGED <<at, plan, got, no, told, alone, count>> BY DEF EvalCmd
  <2>5. TypeInv'
    BY <1>0, <2>1, <2>2, <2>3, <2>4 DEF ChannelInv, TypeInv, TypeOK
  <2>6. BufferInv'
    BY <1>0, <2>1, <2>2, <2>3, <2>4 DEF BufferInv
  <2>7. ReaderInv'
    BY <1>0, <2>2, <2>3, <2>4 DEF ChannelInv, TypeInv, TypeOK, ReaderInv, Sure
  <2>8. HeldInv'
    <3>1. ASSUME NEW c \in Clients, Holds(c)
          PROVE  /\ got[c].of.no \in Nat /\ got[c].of.no > 0 /\ got[c].of.no < count
                 /\ got[c].of.no <= count /\ got[c].of.no # count
                 /\ got[c].len > 0
                 /\ Sure(c) => got[c].of.no >= no[c]
      <4>1. got[c] \in Prefix BY <3>1 DEF Holds, ChannelInv, TypeInv, TypeOK
      <4> QED BY <1>0, <3>1, <4>1 DEF ChannelInv, HeldInv, Prefix, Response
    <3>2. \A c \in Clients : (Holds(c)' <=> Holds(c)) /\ (Sure(c)' <=> Sure(c))
      BY <2>4 DEF Holds, Sure
    <3>3. got' = got /\ no' = no /\ response_buffer'.no = count BY <2>2, <2>3, <2>4
    <3> QED BY ONLY <3>1, <3>2, <3>3 DEF HeldInv
  <2>9. OwnerInv'
    BY <1>0, <2>2, <2>3, <2>4 DEF ChannelInv, TypeInv, TypeOK, OwnerInv, Owns, Holds
  <2>10. AloneInv'
    <3> SUFFICES ASSUME NEW c \in Clients, alone[c]
                 PROVE  /\ at[c] = "read" /\ \A d \in Clients \ {c} : at[d] # "read"
                        /\ Sure(c) => no[c] = count /\ got[c] = Nothing
      BY <2>2, <2>3, <2>4 DEF AloneInv, Sure
    <3>1. at[c] = "read" /\ (\A d \in Clients \ {c} : at[d] # "read") /\ cmd.no = no[c]
      BY <1>0 DEF ChannelInv, AloneInv
    <3>2. got[c] = Nothing BY <1>0, <3>1 DEF ChannelInv, ReaderInv
    <3> QED BY <1>0, <3>1, <3>2
  <2> QED BY <2>5, <2>6, <2>7, <2>8, <2>9, <2>10 DEF ChannelInv
<1>2. CASE cmd.op \in Unencodable /\ UNCHANGED <<response_buffer, read_index>>
  <2>1. cmd' = NoCmd /\ UNCHANGED <<at, plan, got, no, told, alone, count>>
    BY DEF EvalCmd
  <2>2. TypeInv' BY <1>2, <2>1 DEF ChannelInv, TypeInv, TypeOK
  <2>3. BufferInv' BY <1>0, <1>2, <2>1 DEF ChannelInv, BufferInv
  <2>4. ReaderInv'
    <3>1. \A c \in Clients : at[c] = "read" /\ Sure(c) => cmd.no # no[c]
      BY <1>0, <1>2 DEF ChannelInv, ReaderInv, Sure
    <3> QED BY <1>2, <2>1, <3>1 DEF ChannelInv, ReaderInv, Sure
  <2>5. HeldInv' BY <1>2, <2>1 DEF ChannelInv, HeldInv, Holds, Sure
  <2>6. OwnerInv' BY <1>2, <2>1 DEF ChannelInv, OwnerInv, Owns, Holds
  <2>7. AloneInv'
    <3>1. \A c \in Clients : alone[c] => ~Sure(c)
      BY <1>0, <1>2 DEF ChannelInv, AloneInv, ReaderInv, Sure
    <3> QED BY <1>2, <2>1, <3>1 DEF ChannelInv, AloneInv, Sure
  <2> QED BY <2>2, <2>3, <2>4, <2>5, <2>6, <2>7 DEF ChannelInv
<1> QED BY <1>1, <1>2 DEF EvalCmd

\* The first bytes of a response go to one client, and only that client can go on.
LEMMA ReadSomeInv == ASSUME ChannelInv, NEW c \in Clients, ReadSome(c) PROVE ChannelInv'
<1> DEFINE left == response_buffer.size - read_index
           n == ReadSize(left)
           g == Extended(got[c], n)
           all == [of |-> response_buffer, len |-> read_index + n]
<1>1. /\ response_buffer \in Response /\ response_buffer.no \in Nat
      /\ response_buffer.size \in Nat /\ read_index \in 0 .. response_buffer.size
      /\ read_index # response_buffer.size /\ count \in Nat
  BY DEF ChannelInv, TypeInv, TypeOK, Response, ReadSome
<1>2. left \in Nat /\ left > 0 BY <1>1
<1>3. n \in 1 .. left BY <1>2, ReadSizes
<1>4. /\ cmd = NoCmd /\ at[c] = "read" /\ read_index' = read_index + n
      /\ got' = [got EXCEPT ![c] = g]
      /\ UNCHANGED <<cmd, response_buffer, at, plan, no, told, alone, count>>
  BY DEF ReadSome
<1>5. response_buffer # NoResponse /\ response_buffer.no > 0
  BY <1>1 DEF NoResponse, ChannelInv, BufferInv
<1>6. got \in [Clients -> Prefix \cup {Garbled}]
  BY DEF ChannelInv, TypeInv, TypeOK
<1> HIDE DEF left
<1>7. read_index' \in 1 .. response_buffer.size /\ read_index + n \in Nat /\ read_index' > read_index
  BY <1>1, <1>3, <1>4 DEF left
<1> HIDE DEF n
<1>8. /\ all \in Prefix /\ all # Garbled /\ all # Nothing
      /\ all.of = response_buffer /\ all.len = read_index'
  BY <1>1, <1>4, <1>5, <1>7, ValueTypes DEF Prefix, Nothing
<1>9. \/ g = Garbled
      \/ g = all /\ got[c] # Garbled /\ got[c].len = read_index
           /\ got[c].of \in {NoResponse, response_buffer}
  BY DEF Extended
<1>10. g = all => \/ got[c] = Nothing /\ read_index = 0
                  \/ Holds(c) /\ got[c].of = response_buffer
  <2>1. CASE got[c] = Nothing
    BY <1>5, <1>8, <1>9, <2>1, ValueTypes DEF Nothing
  <2>2. CASE got[c] # Nothing /\ g = all
    <3>1. Holds(c) BY <1>8, <1>9, <2>2 DEF Holds
    <3>2. got[c].of.no > 0 BY <3>1 DEF ChannelInv, HeldInv
    <3>3. got[c].of # NoResponse BY <3>2 DEF NoResponse
    <3> QED BY <1>8, <1>9, <2>2, <3>1, <3>3
  <2> QED BY <2>1, <2>2
<1> HIDE DEF g, all
<1>11. /\ got'[c] = g
       /\ \A d \in Clients \ {c} : got'[d] = got[d]
       /\ \A d \in Clients : d # c => (Holds(d)' <=> Holds(d))
       /\ \A d \in Clients : Sure(d)' <=> Sure(d)
       /\ Holds(c)' => g = all
  BY <1>4, <1>6, <1>9 DEF Holds, Sure
<1>12. TypeInv'
  BY <1>4, <1>6, <1>7, <1>8, <1>9 DEF ChannelInv, TypeInv, TypeOK
<1>13. BufferInv' BY <1>4 DEF ChannelInv, BufferInv
<1>14. ReaderInv'
  BY <1>4, <1>11 DEF ChannelInv, ReaderInv
<1>15. HeldInv'
  <2> SUFFICES ASSUME NEW d \in Clients, Holds(d)'
               PROVE  /\ got'[d].of.no > 0 /\ got'[d].of.no <= response_buffer.no
                      /\ got'[d].len > 0
                      /\ got'[d].of.no = response_buffer.no =>
                           got'[d].of = response_buffer /\ got'[d].len <= read_index'
                      /\ Sure(d) => got'[d].of.no >= no[d]
    BY <1>4, <1>11 DEF HeldInv
  <2>1. CASE d = c
    <3>1. got'[d] = all BY <1>11, <2>1
    <3>2. Sure(c) => response_buffer.no >= no[c] BY <1>4 DEF ChannelInv, ReaderInv
    <3> QED BY <1>1, <1>5, <1>7, <1>8, <2>1, <3>1, <3>2
  <2>2. CASE d # c
    <3>1. Holds(d) /\ got'[d] = got[d] BY <1>11, <2>2
    <3>2. got[d] \in Prefix BY <1>6, <3>1 DEF Holds
    <3>3. got[d].len \in Nat BY <3>2 DEF Prefix
    <3> QED BY <1>1, <1>7, <3>1, <3>3 DEF ChannelInv, HeldInv
  <2> QED BY <2>1, <2>2
<1>16. OwnerInv'
  <2>1. ASSUME NEW d \in Clients, NEW m \in 1 .. count, Owns(d, m)'
        PROVE  \/ Owns(d, m)
               \/ /\ d = c /\ m = response_buffer.no
                  /\ \A e \in Clients : ~Owns(e, response_buffer.no)
    <3>1. CASE told[d] = m BY <3>1 DEF Owns
    <3>2. CASE Holds(d)' /\ got'[d].of.no = m /\ d # c
      BY <1>11, <3>2 DEF Owns
    <3>3. CASE Holds(d)' /\ got'[d].of.no = m /\ d = c
      <4>1. g = all /\ m = response_buffer.no BY <1>8, <1>11, <3>3
      <4>2. CASE Holds(c) /\ got[c].of = response_buffer
        BY <3>3, <4>1, <4>2 DEF Owns
      <4>3. CASE got[c] = Nothing /\ read_index = 0
        <5>1. ASSUME NEW e \in Clients, told[e] = response_buffer.no PROVE FALSE
          BY <1>5, <4>3, <5>1 DEF ChannelInv, OwnerInv
        <5>2. ASSUME NEW e \in Clients, Holds(e), got[e].of.no = response_buffer.no PROVE FALSE
          <6>1. got[e].len > 0 /\ got[e].len <= 0 BY <4>3, <5>2 DEF ChannelInv, HeldInv
          <6>2. got[e].len \in Nat BY <1>6, <5>2 DEF Holds, Prefix
          <6> QED BY <6>1, <6>2
        <5> QED BY <3>3, <4>1, <5>1, <5>2 DEF Owns
      <4> QED BY <1>10, <4>1, <4>2, <4>3
    <3> QED BY <1>4, <2>1, <3>1, <3>2, <3>3 DEF Owns
  <2>2. \A d, e \in Clients : \A m \in 1 .. count : Owns(d, m)' /\ Owns(e, m)' => d = e
    BY <2>1 DEF ChannelInv, OwnerInv
  <2>3. read_index' > 0 BY <1>1, <1>7
  <2> QED BY <1>4, <2>2, <2>3 DEF ChannelInv, OwnerInv
<1>17. AloneInv'
  <2> SUFFICES ASSUME NEW d \in Clients, alone[d]
               PROVE  /\ at[d] = "read" /\ \A e \in Clients \ {d} : at[e] # "read"
                      /\ Sure(d) => response_buffer.no = no[d] /\ got'[d] = all
    <3>1. read_index' # 0 /\ read_index' \in Nat BY <1>1, <1>7
    <3>2. all = [of |-> response_buffer, len |-> read_index'] BY <1>4 DEF all
    <3> QED BY <1>4, <1>11, <3>1, <3>2 DEF AloneInv
  <2>1. at[d] = "read" /\ \A e \in Clients \ {d} : at[e] # "read"
    BY DEF ChannelInv, AloneInv
  <2>2. d = c BY <1>4, <2>1
  <2>3. ASSUME Sure(d) PROVE response_buffer.no = no[d] /\ got'[d] = all
    <3>1. /\ response_buffer.no = no[d]
          /\ got[c] = IF read_index = 0 THEN Nothing
                      ELSE [of |-> response_buffer, len |-> read_index]
      BY <1>4, <2>2, <2>3 DEF ChannelInv, AloneInv
    <3>2. got[c] # Garbled /\ got[c].len = read_index /\ got[c].of \in {NoResponse, response_buffer}
      <4>1. CASE read_index = 0 BY <3>1, <4>1, ValueTypes DEF Nothing
      <4>2. CASE read_index # 0
        <5>1. [of |-> response_buffer, len |-> read_index] \in Prefix BY <1>1 DEF Prefix
        <5> QED BY <3>1, <4>2, <5>1, ValueTypes
      <4> QED BY <4>1, <4>2
    <3>3. g = all BY <3>2 DEF g, Extended, all
    <3> QED BY <1>11, <2>2, <3>1, <3>3
  <2> QED BY <2>1, <2>3
<1> QED BY <1>12, <1>13, <1>14, <1>15, <1>16, <1>17 DEF ChannelInv

\* A client shows what it holds, and holds nothing any more.
LEMMA ReadEndInv == ASSUME ChannelInv, NEW c \in Clients, ReadEnd(c) PROVE ChannelInv'
<1>0. PICK n \in Parsed(got[c]) :
        /\ told' = [told EXCEPT ![c] = n]
        /\ \/ Advance(c, Tail(plan[c]))
           \/ at' = [at EXCEPT ![c] = "gone"] /\ plan' = [plan EXCEPT ![c] = <<>>]
  BY DEF ReadEnd
<1>1. /\ at[c] = "read" /\ cmd = NoCmd
      /\ got' = [got EXCEPT ![c] = Nothing] /\ no' = [no EXCEPT ![c] = 0]
      /\ alone' = [alone EXCEPT ![c] = FALSE]
      /\ UNCHANGED <<cmd, response_buffer, read_index, count>>
  BY DEF ReadEnd, AtEnd, Forget
<1>2. /\ plan[c] \in Seq(Ops) /\ plan[c] # <<>> /\ Tail(plan[c]) \in Seq(Ops)
  BY <1>1, HeadAndTail DEF ChannelInv, TypeInv, TypeOK
<1>3. /\ at \in [Clients -> {"idle", "write", "read", "gone"}] /\ plan \in [Clients -> Seq(Ops)]
      /\ got \in [Clients -> Prefix \cup {Garbled}] /\ no \in [Clients -> 0 .. count]
      /\ told \in [Clients -> 0 .. count] /\ alone \in [Clients -> BOOLEAN] /\ count \in Nat
      /\ response_buffer \in Response /\ read_index \in Nat
  BY DEF ChannelInv, TypeInv, TypeOK, Response
<1>4. PICK next \in {"idle", "write", "gone"}, rest \in Seq(Ops) :
        /\ at' = [at EXCEPT ![c] = next] /\ plan' = [plan EXCEPT ![c] = rest]
        /\ next = "write" => rest # <<>>
  <2>1. CASE Advance(c, Tail(plan[c]))
    BY <1>2, <2>1 DEF Advance
  <2>2. CASE at' = [at EXCEPT ![c] = "gone"] /\ plan' = [plan EXCEPT ![c] = <<>>]
    <3>1. <<>> \in Seq(Ops) BY EmptySeq
    <3> QED BY <2>2, <3>1
  <2> QED BY <1>0, <2>1, <2>2
<1>5. \A d \in Clients : d # c =>
        /\ at'[d] = at[d] /\ plan'[d] = plan[d] /\ got'[d] = got[d] /\ no'[d] = no[d]
        /\ told'[d] = told[d] /\ alone'[d] = alone[d]
  BY <1>0, <1>1, <1>4
<1>6. at'[c] = next /\ got'[c] = Nothing /\ no'[c] = 0 /\ told'[c] = n /\ ~alone'[c]
  BY <1>0, <1>1, <1>3, <1>4
<1>7. n = 0 \/ (Holds(c) /\ n = got[c].of.no /\ n > 0)
  BY ParsedValues DEF ChannelInv, HeldInv
<1>8. /\ n \in 0 .. count /\ n <= response_buffer.no
      /\ n > 0 /\ n = response_buffer.no => read_index > 0
  <2>1. CASE n = 0 BY <1>3, <2>1 DEF Response
  <2>2. CASE n # 0
    <3>1. got[c] \in Prefix BY <1>3, <1>7, <2>2 DEF Holds
    <3>2. got[c].of.no \in Nat /\ got[c].len \in Nat BY <3>1 DEF Prefix, Response
    <3>3. response_buffer.no \in Nat BY <1>3 DEF Response
    <3> QED BY <1>3, <1>7, <2>2, <3>2, <3>3 DEF ChannelInv, HeldInv, BufferInv
  <2> QED BY <2>1, <2>2
<1>9. /\ ~Holds(c)'
      /\ \A d \in Clients : d # c => (Holds(d)' <=> Holds(d)) /\ (Sure(d)' <=> Sure(d))
  BY <1>5, <1>6 DEF Holds, Sure
<1>10. TypeInv'
  <2>1. TypeOK'
    BY <1>0, <1>1, <1>3, <1>4, <1>8, ValueTypes DEF ChannelInv, TypeInv, TypeOK
  <2>2. \A d \in Clients : at'[d] \in {"write", "read"} => plan'[d] # <<>>
    BY <1>3, <1>4 DEF ChannelInv, TypeInv
  <2> QED BY <2>1, <2>2 DEF TypeInv
<1>11. BufferInv' BY <1>1 DEF ChannelInv, BufferInv
<1>12. ReaderInv'
  BY <1>1, <1>5, <1>6, <1>9 DEF ChannelInv, ReaderInv
<1>13. HeldInv'
  BY <1>1, <1>5, <1>9 DEF ChannelInv, HeldInv
<1>14. OwnerInv'
  <2>1. ASSUME NEW d \in Clients, NEW m \in 1 .. count, Owns(d, m)' PROVE Owns(d, m)
    BY <1>5, <1>6, <1>7, <1>9, <2>1 DEF Owns
  <2>2. \A d, e \in Clients : \A m \in 1 .. count : Owns(d, m)' /\ Owns(e, m)' => d = e
    BY <2>1 DEF ChannelInv, OwnerInv
  <2> QED BY <1>1, <1>5, <1>6, <1>8, <2>2 DEF ChannelInv, OwnerInv
<1>15. AloneInv'
  <2>1. ASSUME NEW d \in Clients, alone'[d] PROVE FALSE
    BY <1>1, <1>5, <1>6, <2>1 DEF ChannelInv, AloneInv
  <2> QED BY <2>1 DEF AloneInv
<1> QED BY <1>10, <1>11, <1>12, <1>13, <1>14, <1>15 DEF ChannelInv

\* A new command has a number of its own, which no response has yet.
LEMMA WriteInv == ASSUME ChannelInv, NEW c \in Clients, Write(c) PROVE ChannelInv'
<1>0. PICK p \in Programs(c) :
        LET op == Head(p) IN
        /\ cmd' = IF op \in Unknown THEN NoCmd ELSE [no |-> count + 1, op |-> op]
        /\ \/ /\ Reads(c, op)
              /\ at' = [at EXCEPT ![c] = "read"] /\ plan' = [plan EXCEPT ![c] = p]
              /\ no' = [no EXCEPT ![c] = count + 1]
              /\ alone' = [d \in Clients |-> d = c /\ Quiet(c)]
           \/ /\ ~Reads(c, op)
              /\ Advance(c, Tail(p))
              /\ alone' = [d \in Clients |-> FALSE] /\ UNCHANGED no
  BY DEF Write
<1>1. /\ cmd = NoCmd /\ count < MaxCommands /\ count' = count + 1
      /\ UNCHANGED <<response_buffer, read_index, got, told>>
  BY DEF Write
<1>2. at[c] # "read" /\ p \in Seq(Ops) /\ p # <<>> /\ Head(p) \in Ops /\ Tail(p) \in Seq(Ops)
  BY ProgramsType, HeadAndTail DEF ChannelInv
<1>3. /\ at \in [Clients -> {"idle", "write", "read", "gone"}] /\ plan \in [Clients -> Seq(Ops)]
      /\ got \in [Clients -> Prefix \cup {Garbled}] /\ no \in [Clients -> 0 .. count]
      /\ told \in [Clients -> 0 .. count] /\ alone \in [Clients -> BOOLEAN] /\ count \in Nat
      /\ response_buffer \in Response /\ response_buffer.no \in Nat /\ MaxCommands \in Nat
      /\ response_buffer.no <= count
  BY ChannelAssumption DEF ChannelInv, TypeInv, TypeOK, Response, BufferInv
<1>4. cmd' # NoCmd => cmd' \in Command /\ cmd'.no = count + 1 /\ cmd'.op = Head(p)
  BY <1>0, <1>2, <1>3 DEF Command
<1>5. Head(p) \notin Unknown => cmd' # NoCmd
  <2>1. [no |-> count + 1, op |-> Head(p)] \in Command BY <1>2, <1>3 DEF Command
  <2> QED BY <1>0, <2>1, ValueTypes
<1>6. got[c] = Nothing BY <1>2 DEF ChannelInv, ReaderInv
<1>7. PICK next \in {"idle", "write", "read"}, rest \in Seq(Ops), k \in 0 .. count + 1 :
        /\ at' = [at EXCEPT ![c] = next] /\ plan' = [plan EXCEPT ![c] = rest]
        /\ no' = [no EXCEPT ![c] = k]
        /\ next \in {"write", "read"} => rest # <<>>
        /\ next = "read" => rest = p /\ k = count + 1
        /\ alone' \in [Clients -> BOOLEAN]
        /\ \A d \in Clients : alone'[d] => d = c /\ next = "read" /\ Quiet(c)
  <2>1. CASE Reads(c, Head(p))
    <3>1. count + 1 \in 0 .. count + 1 BY <1>3
    <3>2. alone' = [d \in Clients |-> d = c /\ Quiet(c)] BY <1>0, <2>1
    <3>3. alone' \in [Clients -> BOOLEAN] /\ \A d \in Clients : alone'[d] => d = c /\ Quiet(c)
      BY <3>2
    <3> QED BY <1>0, <1>2, <2>1, <3>1, <3>3
  <2>2. CASE ~Reads(c, Head(p))
    <3> DEFINE next == IF Tail(p) = <<>> THEN "idle" ELSE "write"
    <3>1. no[c] \in 0 .. count + 1 /\ no = [no EXCEPT ![c] = no[c]] BY <1>3
    <3>2. next \in {"idle", "write"} OBVIOUS
    <3>3. /\ at' = [at EXCEPT ![c] = next] /\ plan' = [plan EXCEPT ![c] = Tail(p)] /\ no' = no
          /\ alone' = [d \in Clients |-> FALSE]
      BY <1>0, <2>2 DEF Advance
    <3>4. next = "write" => Tail(p) # <<>> OBVIOUS
    <3> HIDE DEF next
    <3> QED BY <1>2, <3>1, <3>2, <3>3, <3>4
  <2> QED BY <2>1, <2>2
<1>8. /\ at'[c] = next /\ plan'[c] = rest /\ no'[c] = k
      /\ \A d \in Clients : d # c =>
           at'[d] = at[d] /\ plan'[d] = plan[d] /\ no'[d] = no[d] /\ no[d] <= count
      /\ \A d \in Clients : no[d] \in 0 .. count
  BY <1>3, <1>7
<1>9. /\ \A d \in Clients : Holds(d)' <=> Holds(d)
      /\ ~Holds(c)
      /\ \A d \in Clients : d # c => (Sure(d)' <=> Sure(d))
      /\ next = "read" /\ Sure(c)' => cmd' # NoCmd
  BY <1>1, <1>5, <1>6, <1>7, <1>8 DEF Holds, Sure
<1>10. TypeInv'
  <2>1. /\ cmd' \in Command \cup {NoCmd} BY <1>4
  <2>2. count' \in 0 .. MaxCommands BY <1>1, <1>3
  <2>3. no' \in [Clients -> 0 .. count'] /\ told' \in [Clients -> 0 .. count']
    BY <1>1, <1>3, <1>7
  <2>4. at' \in [Clients -> {"idle", "write", "read", "gone"}] /\ plan' \in [Clients -> Seq(Ops)]
    BY <1>3, <1>7
  <2>5. \A d \in Clients : at'[d] \in {"write", "read"} => plan'[d] # <<>>
    BY <1>7, <1>8 DEF ChannelInv, TypeInv
  <2> QED BY <1>1, <1>7, <2>1, <2>2, <2>3, <2>4, <2>5 DEF ChannelInv, TypeInv, TypeOK
<1>11. BufferInv'
  BY <1>1, <1>3, <1>4 DEF ChannelInv, BufferInv
<1>12. ReaderInv'
  <2> SUFFICES ASSUME NEW d \in Clients
               PROVE  /\ at'[d] = "read" => no'[d] > 0
                      /\ at'[d] # "read" => got[d] = Nothing
                      /\ at'[d] = "read" /\ cmd' # NoCmd /\ cmd'.no = no'[d] =>
                           cmd'.op = Head(plan'[d]) /\ got[d] = Nothing
                      /\ at'[d] = "read" /\ Sure(d)' /\ (cmd' # NoCmd => cmd'.no # no'[d]) =>
                           response_buffer.no >= no'[d]
    BY <1>1 DEF ReaderInv
  <2>1. CASE d = c BY <1>3, <1>4, <1>6, <1>7, <1>8, <1>9, <2>1
  <2>2. CASE d # c
    <3>1. cmd' # NoCmd => cmd'.no # no'[d] BY <1>3, <1>4, <1>8, <2>2
    <3> QED BY <1>1, <1>8, <1>9, <2>2, <3>1 DEF ChannelInv, ReaderInv
  <2> QED BY <2>1, <2>2
<1>13. HeldInv'
  BY <1>1, <1>8, <1>9 DEF ChannelInv, HeldInv
<1>14. OwnerInv'
  <2>1. ASSUME NEW d \in Clients, NEW m \in 1 .. count + 1, Owns(d, m)'
        PROVE  Owns(d, m) /\ m \in 1 .. count
    <3>1. Owns(d, m) BY <1>1, <1>9, <2>1 DEF Owns
    <3>2. m <= response_buffer.no BY <3>1 DEF Owns, ChannelInv, OwnerInv, HeldInv
    <3> QED BY <1>3, <3>1, <3>2
  <2>2. \A d, e \in Clients : \A m \in 1 .. count' : Owns(d, m)' /\ Owns(e, m)' => d = e
    BY <1>1, <2>1 DEF ChannelInv, OwnerInv
  <2> QED BY <1>1, <2>2 DEF ChannelInv, OwnerInv
<1>15. AloneInv'
  <2> SUFFICES ASSUME NEW d \in Clients, alone'[d]
               PROVE  /\ at'[d] = "read" /\ \A e \in Clients \ {d} : at'[e] # "read"
                      /\ cmd' # NoCmd => cmd'.no = no'[d]
                      /\ Sure(d)' => cmd' # NoCmd
    BY DEF AloneInv
  <2>1. d = c /\ next = "read" /\ Quiet(c) BY <1>7
  <2> QED BY <1>4, <1>7, <1>8, <1>9, <2>1 DEF Quiet
<1> QED BY <1>10, <1>11, <1>12, <1>13, <1>14, <1>15 DEF ChannelInv

LEMMA ChannelAlways == Spec => []ChannelInv
<1>1. ChannelInv /\ [Next]_vars => ChannelInv'
  <2> SUFFICES ASSUME ChannelInv, [Next]_vars PROVE ChannelInv'
    OBVIOUS
  <2>1. CASE EvalCmd BY <2>1, EvalCmdInv
  <2>2. ASSUME NEW c \in Clis, Interrupt(c) PROVE ChannelInv' BY <2>2, InterruptInv
  <2>3. ASSUME NEW c \in Clients, Write(c) PROVE ChannelInv' BY <2>3, WriteInv
  <2>4. ASSUME NEW c \in Clients, ReadSome(c) PROVE ChannelInv' BY <2>4, ReadSomeInv
  <2>5. ASSUME NEW c \in Clients, ReadEnd(c) PROVE ChannelInv' BY <2>5, ReadEndInv
  <2>6. CASE UNCHANGED vars
    BY <2>6 DEF vars, scheme, ChannelInv, TypeInv, TypeOK, BufferInv, ReaderInv, HeldInv,
                OwnerInv, AloneInv, Owns, Holds, Sure
  <2> QED BY <2>1, <2>2, <2>3, <2>4, <2>5, <2>6 DEF Next, Read
<1> QED BY <1>1, InitInv, PTL DEF Spec

-----------------------------------------------------------------------------
(* The theorems.                                                           *)

\* The read index stays inside the response, and a client that writes or reads has a
\* command to do it for.
THEOREM TypeCorrect == Spec => []TypeInv
<1>1. ChannelInv => TypeInv BY DEF ChannelInv
<1> QED BY <1>1, ChannelAlways, PTL

\* However many clients overlap, a response is shown by one of them at most.
THEOREM OneReaderCorrect == Spec => []OneReader
<1>1. ChannelInv => OneReader
  <2> SUFFICES ASSUME ChannelInv, NEW c \in Clients, NEW d \in Clients,
                      told[c] # 0, told[c] = told[d]
               PROVE  c = d
    BY DEF OneReader
  <2>1. told[c] \in 1 .. count BY DEF ChannelInv, TypeInv, TypeOK
  <2>2. Owns(c, told[c]) /\ Owns(d, told[c]) BY DEF Owns
  <2> QED BY <2>1, <2>2 DEF ChannelInv, OwnerInv
<1> QED BY <1>1, ChannelAlways, PTL

-----------------------------------------------------------------------------
(* The refinement.                                                         *)

\* A client waits in the sense of CommandAnswers while it reads.
LEMMA WaitingValues ==
    ASSUME ReaderInv
    PROVE  \A c \in Clients :
             /\ waiting[c] = Exchange(c)
             /\ waiting[c] = Answers!NotWaiting <=> at[c] # "read"
             /\ at[c] = "read" => waiting[c] = [no |-> no[c], sure |-> Sure(c), alone |-> alone[c]]
<1> SUFFICES ASSUME NEW c \in Clients
             PROVE  /\ waiting[c] = Exchange(c)
                    /\ waiting[c] = Answers!NotWaiting <=> at[c] # "read"
                    /\ at[c] = "read" =>
                         waiting[c] = [no |-> no[c], sure |-> Sure(c), alone |-> alone[c]]
  OBVIOUS
<1>1. waiting[c] = Exchange(c) BY DEF waiting
<1>2. CASE at[c] # "read"
  BY <1>1, <1>2 DEF Exchange, Answers!NotWaiting
<1>3. CASE at[c] = "read"
  <2>1. Exchange(c) = [no |-> no[c], sure |-> Sure(c), alone |-> alone[c]]
    BY <1>3 DEF Exchange, Sure
  <2>2. no[c] > 0 BY <1>3 DEF ReaderInv
  <2>3. Exchange(c).no = no[c] /\ Answers!NotWaiting.no = 0 BY <2>1 DEF Answers!NotWaiting
  <2>4. Exchange(c) # Answers!NotWaiting BY <2>2, <2>3
  <2> QED BY <1>1, <1>3, <2>1, <2>4
<1> QED BY <1>2, <1>3

\* What a client that reads the end shows is possible.
LEMMA ShownIsPossible ==
    ASSUME ChannelInv, NEW c \in Clients, at[c] = "read", cmd = NoCmd,
           read_index = response_buffer.size, NEW n \in Parsed(got[c])
    PROVE  n \in Answers!Possible(waiting[c])
<1>1. waiting[c] = [no |-> no[c], sure |-> Sure(c), alone |-> alone[c]]
  BY WaitingValues DEF ChannelInv
<1>2. Sure(c) \in BOOLEAN BY DEF Sure
<1>3. /\ count \in Nat /\ no[c] \in 0 .. count /\ no[c] > 0
      /\ response_buffer \in Response /\ response_buffer.no \in Nat
      /\ response_buffer.size \in Nat /\ response_buffer.no <= count
  BY DEF ChannelInv, TypeInv, TypeOK, ReaderInv, BufferInv, Response
<1>4. n = 0 \/ (Holds(c) /\ n = got[c].of.no) BY ParsedValues
<1>5. Holds(c) => /\ got[c].of.no \in 0 .. count
                  /\ Sure(c) => got[c].of.no \in no[c] .. count
  <2> SUFFICES ASSUME Holds(c) PROVE /\ got[c].of.no \in 0 .. count
                                     /\ Sure(c) => got[c].of.no \in no[c] .. count
    OBVIOUS
  <2>1. got[c] \in Prefix BY DEF Holds, ChannelInv, TypeInv, TypeOK
  <2>2. got[c].of.no \in Nat BY <2>1 DEF Prefix, Response
  <2> QED BY <1>3, <2>2 DEF ChannelInv, HeldInv
<1>6. n \in 0 .. count BY <1>3, <1>4, <1>5
<1>7. Sure(c) => n \in {0} \cup no[c] .. count BY <1>4, <1>5
<1>8. ASSUME Sure(c), alone[c] PROVE n = no[c]
  <2>1. /\ response_buffer.no = no[c]
        /\ got[c] = IF read_index = 0 THEN Nothing
                    ELSE [of |-> response_buffer, len |-> read_index]
    BY <1>8 DEF ChannelInv, AloneInv
  <2>2. response_buffer.size > 0
    <3>1. response_buffer # NoResponse BY <1>3, <2>1 DEF NoResponse
    <3> QED BY <3>1 DEF ChannelInv, BufferInv
  <2> DEFINE whole == [of |-> response_buffer, len |-> response_buffer.size]
  <2>3. got[c] = whole BY <1>3, <2>1, <2>2
  <2>4. whole \in Prefix /\ whole.of = response_buffer /\ whole.len = whole.of.size
    BY <1>3 DEF Prefix
  <2>5. whole # Garbled BY <2>4, ValueTypes
  <2>6. whole # Nothing
    <3>1. whole.len = response_buffer.size /\ Nothing.len = 0 BY DEF Nothing
    <3> QED BY <2>2, <3>1
  <2> HIDE DEF whole
  <2>7. Parsed(whole) = {whole.of.no} BY <2>4, <2>5, <2>6 DEF Parsed
  <2> QED BY <2>1, <2>3, <2>4, <2>7
<1> DEFINE w == waiting[c]
<1>9. w.no = no[c] /\ w.sure = Sure(c) /\ w.alone = alone[c] BY <1>1
<1> HIDE DEF w
<1>10. n \in Answers!Possible(w)
  BY <1>2, <1>6, <1>7, <1>8, <1>9 DEF Answers!Possible
<1> QED BY <1>10 DEF w

\* The exchanges of the other clients are as they were.
LEMMA SameExchanges ==
    ASSUME NEW c \in Clients,
           \A d \in Clients \ {c} : /\ at'[d] = at[d] /\ plan'[d] = plan[d]
                                    /\ no'[d] = no[d] /\ alone'[d] = alone[d]
    PROVE  \A d \in Clients \ {c} : waiting'[d] = waiting[d]
BY DEF waiting, Exchange

LEMMA FunctionOfWaiting ==
    ASSUME NEW c \in Clients, at'[c] # "read",
           \A d \in Clients \ {c} : waiting'[d] = waiting[d]
    PROVE  waiting' = [waiting EXCEPT ![c] = Answers!NotWaiting]
<1>1. waiting'[c] = Answers!NotWaiting BY DEF waiting, Exchange, Answers!NotWaiting
<1>2. waiting = [d \in Clients |-> waiting[d]] /\ waiting' = [d \in Clients |-> waiting'[d]]
  BY DEF waiting
<1> QED BY <1>1, <1>2

LEMMA InterruptLeaves ==
    ASSUME ChannelInv, NEW c \in Clis, Interrupt(c) PROVE Answers!Leave(c)
<1>0. c \in Clients BY DEF Clients
<1>1. waiting[c] # Answers!NotWaiting BY <1>0, WaitingValues DEF ChannelInv, Interrupt
<1>2. /\ at'[c] # "read"
      /\ \A d \in Clients \ {c} : /\ at'[d] = at[d] /\ plan'[d] = plan[d]
                                  /\ no'[d] = no[d] /\ alone'[d] = alone[d]
  BY <1>0 DEF Interrupt, Advance, Forget, ChannelInv, TypeInv, TypeOK
<1>3. waiting' = [waiting EXCEPT ![c] = Answers!NotWaiting]
  BY <1>0, <1>2, SameExchanges, FunctionOfWaiting
<1> QED BY <1>1, <1>3 DEF Answers!Leave, Interrupt

LEMMA ReadEndTells ==
    ASSUME ChannelInv, NEW c \in Clients, ReadEnd(c) PROVE Answers!Tell(c)
<1>1. /\ at[c] = "read" /\ cmd = NoCmd /\ read_index = response_buffer.size
      /\ UNCHANGED count
  BY DEF ReadEnd
<1>2. waiting[c] # Answers!NotWaiting BY <1>1, WaitingValues DEF ChannelInv
<1>3. PICK n \in Parsed(got[c]) : told' = [told EXCEPT ![c] = n]
  BY DEF ReadEnd
<1>4. n \in Answers!Possible(waiting[c]) BY <1>1, ShownIsPossible
<1>5. /\ at'[c] # "read"
      /\ \A d \in Clients \ {c} : /\ at'[d] = at[d] /\ plan'[d] = plan[d]
                                  /\ no'[d] = no[d] /\ alone'[d] = alone[d]
  BY DEF ReadEnd, Advance, Forget, ChannelInv, TypeInv, TypeOK
<1>6. waiting' = [waiting EXCEPT ![c] = Answers!NotWaiting]
  BY <1>5, SameExchanges, FunctionOfWaiting
<1> QED BY <1>1, <1>2, <1>3, <1>4, <1>6 DEF Answers!Tell

\* An exchange that is disturbed keeps its number and its kind.
LEMMA AloneNoMore ==
    ASSUME NEW n, NEW s, NEW a, NEW b
    PROVE  [[no |-> n, sure |-> s, alone |-> a] EXCEPT !.alone = b]
             = [no |-> n, sure |-> s, alone |-> b]
OBVIOUS

\* A write is a command, and disturbs those that read.
LEMMA WriteAsks ==
    ASSUME ChannelInv, NEW c \in Clients, Write(c) PROVE Answers!Ask(c)
<1>0. PICK p \in Programs(c) :
           \/ /\ Reads(c, Head(p))
              /\ at' = [at EXCEPT ![c] = "read"] /\ plan' = [plan EXCEPT ![c] = p]
              /\ no' = [no EXCEPT ![c] = count + 1]
              /\ alone' = [d \in Clients |-> d = c /\ Quiet(c)]
           \/ /\ ~Reads(c, Head(p))
              /\ Advance(c, Tail(p))
              /\ alone' = [d \in Clients |-> FALSE] /\ UNCHANGED no
  BY DEF Write
<1>1. at[c] # "read" BY ProgramsType DEF ChannelInv
<1>2. count' = count + 1 /\ UNCHANGED told BY DEF Write
<1>3. waiting[c] = Answers!NotWaiting BY <1>1, WaitingValues DEF ChannelInv
<1>4. /\ at \in [Clients -> {"idle", "write", "read", "gone"}]
      /\ plan \in [Clients -> Seq(Ops)] /\ no \in [Clients -> 0 .. count]
  BY DEF ChannelInv, TypeInv, TypeOK
<1>5. \A d \in Clients \ {c} : /\ at'[d] = at[d] /\ plan'[d] = plan[d]
                               /\ no'[d] = no[d] /\ ~alone'[d]
  BY <1>0, <1>4 DEF Advance
<1>6. ASSUME NEW d \in Clients \ {c} PROVE waiting'[d] = Answers!Disturbed(c)[d]
  <2>1. CASE at[d] # "read"
    <3>1. waiting[d] = Answers!NotWaiting BY <2>1, WaitingValues DEF ChannelInv
    <3>2. waiting'[d] = Answers!NotWaiting
      BY <1>5, <2>1 DEF waiting, Exchange, Answers!NotWaiting
    <3> QED BY <3>1, <3>2 DEF Answers!Disturbed
  <2>2. CASE at[d] = "read"
    <3>1. /\ waiting[d] = [no |-> no[d], sure |-> Sure(d), alone |-> alone[d]]
          /\ waiting[d] # Answers!NotWaiting
      BY <2>2, WaitingValues DEF ChannelInv
    <3>2. alone'[d] = FALSE BY <1>0, <1>5
    <3>3. waiting'[d] = [no |-> no[d], sure |-> Sure(d), alone |-> FALSE]
      BY <1>5, <2>2, <3>2 DEF waiting, Exchange, Sure
    <3>4. Answers!Disturbed(c)[d] = [waiting[d] EXCEPT !.alone = FALSE]
      BY <1>6, <3>1 DEF Answers!Disturbed
    <3>5. \A n, s, a, b : [[no |-> n, sure |-> s, alone |-> a] EXCEPT !.alone = b]
                             = [no |-> n, sure |-> s, alone |-> b]
      BY AloneNoMore, Zenon
    <3>6. Answers!Disturbed(c)[d]
            = [[no |-> no[d], sure |-> Sure(d), alone |-> alone[d]] EXCEPT !.alone = FALSE]
      BY ONLY <3>1, <3>4, Zenon
    <3> QED BY ONLY <3>3, <3>5, <3>6, Zenon
  <2> QED BY <2>1, <2>2
<1>7. Quiet(c) <=> Answers!Quiet(c)
  BY WaitingValues DEF Quiet, Answers!Quiet, ChannelInv
<1>8. waiting'[c] \in [no : {count + 1}, sure : BOOLEAN, alone : {Answers!Quiet(c)}]
                        \cup {Answers!NotWaiting}
  <2>1. CASE at' = [at EXCEPT ![c] = "read"] /\ plan' = [plan EXCEPT ![c] = p]
               /\ no' = [no EXCEPT ![c] = count + 1]
               /\ alone' = [d \in Clients |-> d = c /\ Quiet(c)]
    <3>1. at'[c] = "read" /\ no'[c] = count + 1 BY <1>4, <2>1
    <3>2. alone'[c] = Quiet(c) BY <2>1 DEF Quiet
    <3>3. Quiet(c) = Answers!Quiet(c) BY <1>7 DEF Quiet, Answers!Quiet
    <3>4. waiting'[c] = [no |-> count + 1,
                         sure |-> Head(plan'[c]) \notin Unknown \cup Unencodable,
                         alone |-> Answers!Quiet(c)]
      BY <3>1, <3>2, <3>3 DEF waiting, Exchange
    <3> QED BY <3>4
  <2>2. CASE Advance(c, Tail(p))
    <3>1. at'[c] # "read" BY <1>4, <2>2 DEF Advance
    <3> QED BY <3>1 DEF waiting, Exchange, Answers!NotWaiting
  <2> QED BY <1>0, <2>1, <2>2
<1>9. waiting' = [Answers!Disturbed(c) EXCEPT ![c] = waiting'[c]]
  <2>1. waiting' = [d \in Clients |-> waiting'[d]] BY DEF waiting
  <2>2. Answers!Disturbed(c) = [d \in Clients |-> Answers!Disturbed(c)[d]]
    BY DEF Answers!Disturbed
  <2> QED BY <1>6, <2>1, <2>2
<1> QED BY <1>2, <1>3, <1>8, <1>9 DEF Answers!Ask

\* Every client is told nothing but what CommandAnswers allows: the client that has the
\* channel to itself, its own response and the whole of it.
THEOREM ChannelImplementsAnswers == Spec => Answers!SafeSpec
<1>1. Init => Answers!Init
  <2> SUFFICES ASSUME Init PROVE Answers!Init
    OBVIOUS
  <2>1. waiting = [c \in Clients |-> Answers!NotWaiting]
    BY DEF Init, waiting, Exchange, Answers!NotWaiting
  <2> QED BY <2>1 DEF Init, Answers!Init
<1>2. ChannelInv /\ [Next]_vars => [Answers!Next]_(Answers!vars)
  <2> SUFFICES ASSUME ChannelInv, [Next]_vars PROVE [Answers!Next]_(Answers!vars)
    OBVIOUS
  <2>1. CASE EvalCmd BY <2>1 DEF EvalCmd, Answers!vars, waiting, Exchange
  <2>2. ASSUME NEW c \in Clis, Interrupt(c) PROVE Answers!Next
    BY <2>2, InterruptLeaves DEF Answers!Next, Clients
  <2>3. ASSUME NEW c \in Clients, Write(c) PROVE Answers!Next
    BY <2>3, WriteAsks DEF Answers!Next
  <2>4. ASSUME NEW c \in Clients, ReadSome(c) PROVE UNCHANGED Answers!vars
    BY <2>4 DEF ReadSome, Answers!vars, waiting, Exchange
  <2>5. ASSUME NEW c \in Clients, ReadEnd(c) PROVE Answers!Next
    BY <2>5, ReadEndTells DEF Answers!Next
  <2>6. CASE UNCHANGED vars BY <2>6 DEF vars, scheme, Answers!vars, waiting, Exchange
  <2> QED BY <2>1, <2>2, <2>3, <2>4, <2>5, <2>6 DEF Next, Read
<1> QED BY <1>1, <1>2, ChannelAlways, PTL DEF Spec, Answers!SafeSpec
=============================================================================
