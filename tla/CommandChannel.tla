--------------------------- MODULE CommandChannel ---------------------------
(***************************************************************************)
(* The scheme of the service monitor and the clients that talk to it.      *)
(*                                                                         *)
(* SMScheme keeps one pending command, one response and one read index for *)
(* all its clients.  The monitor's loop runs eval_cmd before it takes the  *)
(* next request, so a request is handled only when no command is pending.  *)
(* A client writes its command and reads until a read returns nothing; the *)
(* command line client is one such exchange, the graphical client a        *)
(* sequence of them after each event.  What becomes of a command in        *)
(* eval_cmd is the subject of ServiceMonitor and left out here.            *)
(*                                                                         *)
(* A response is known by the number of its command; of what a client has  *)
(* read, only how it fits together is kept.                                *)
(***************************************************************************)
EXTENDS Integers, Sequences

CONSTANTS
    Clis,           \* command line clients
    Guis,           \* graphical clients
    CliCommands,    \* the commands users give on the command line
    Sizes,          \* Sizes[op]: the sizes a response to op may have
    Chunk,          \* size of a client's read buffer: 1024
    Unknown,        \* commands that this monitor does not decode
    Unencodable,    \* commands whose response may fail to encode
    Cuttable,       \* commands whose response may parse when its end is missing
    NoCmd,          \* SMScheme.cmd is None
    Garbled,        \* bytes that are not the beginning of one response
    MaxCommands     \* at most this many commands in a behaviour

Clients == Clis \cup Guis
Ops == {"start", "stop", "list", "clear", "info", "registry"}

ASSUME ChannelAssumption ==
    /\ Clis \cap Guis = {}
    /\ CliCommands \subseteq Ops
    /\ Sizes \in [Ops -> SUBSET (Nat \ {0})]
    /\ \A op \in Ops : Sizes[op] # {}
    /\ Chunk \in Nat \ {0}
    /\ MaxCommands \in Nat

Command == [no : Nat \ {0}, op : Ops]
Response == [no : Nat, op : Ops \cup {"none"}, size : Nat]
NoResponse == [no |-> 0, op |-> "none", size |-> 0]

\* The first bytes of one response.
Prefix == [of : Response, len : Nat]
Nothing == [of |-> NoResponse, len |-> 0]

ASSUME NoChannelValueAssumption == NoCmd \notin Command /\ Garbled \notin Prefix

VARIABLES
    cmd,                \* SMScheme.cmd
    response_buffer,    \* SMScheme.response_buffer
    read_index,         \* SMScheme.read_index
    at,                 \* what each client does next
    plan,               \* commands it has still to send, the current one first
    got,                \* what it has read so far
    no,                 \* number of the command whose response it reads
    told,               \* number of the response it showed last, or 0 if not of one
    alone,              \* nobody else has used the channel since that command
    count               \* commands so far

scheme == <<cmd, response_buffer, read_index>>
vars == <<scheme, at, plan, got, no, told, alone, count>>

Init ==
    /\ cmd = NoCmd /\ response_buffer = NoResponse /\ read_index = 0
    /\ at = [c \in Clients |-> IF c \in Guis THEN "gone" ELSE "idle"]
    /\ plan = [c \in Clients |-> <<>>]
    /\ got = [c \in Clients |-> Nothing]
    /\ no = [c \in Clients |-> 0]
    /\ told = [c \in Clients |-> 0]
    /\ alone = [c \in Clients |-> FALSE]
    /\ count = 0

-----------------------------------------------------------------------------
(* The clients.                                                            *)

\* services <command>
CliPrograms == {<<op>> : op \in CliCommands}

\* What update() sends on a tick, on Stop and on Start, and what view() then adds
\* when the details of a service are shown.
GuiUpdates == {<<"list">>, <<"stop", "list">>, <<"start", "list", "list">>}
GuiPrograms == {commands \o details : commands \in GuiUpdates, details \in {<<>>, <<"info">>}}

\* What the window sends when it opens.
GuiInit == {<<"list">>}

\* The commands a client may send now, one after the other.
Programs(c) ==
    IF at[c] = "read" THEN {}
    ELSE IF at[c] = "write" THEN {plan[c]}
    ELSE IF at[c] = "gone" THEN GuiInit
    ELSE IF c \in Clis THEN CliPrograms ELSE GuiPrograms

\* The graphical client does not read the response to a start or a stop.
Reads(c, op) == c \in Clis \/ op \notin {"start", "stop"}

\* On to the commands that are left.
Advance(c, rest) ==
    /\ plan' = [plan EXCEPT ![c] = rest]
    /\ at' = [at EXCEPT ![c] = IF rest = <<>> THEN "idle" ELSE "write"]

\* The exchange is over.
Forget(c) ==
    /\ got' = [got EXCEPT ![c] = Nothing]
    /\ no' = [no EXCEPT ![c] = 0]
    /\ alone' = [alone EXCEPT ![c] = FALSE]

\* A command line client may be interrupted while it reads.
Interrupt(c) ==
    /\ at[c] = "read"
    /\ Advance(c, <<>>)
    /\ Forget(c)
    /\ UNCHANGED <<scheme, told, count>>

-----------------------------------------------------------------------------
(* The scheme.                                                             *)

Quiet(c) == \A d \in Clients \ {c} : at[d] # "read"

\* write(), of the next command of a client: it is stored, or none if it cannot be
\* decoded.
Write(c) ==
    /\ cmd = NoCmd /\ count < MaxCommands
    /\ count' = count + 1
    /\ \E p \in Programs(c) :
         LET op == Head(p) IN
         /\ cmd' = IF op \in Unknown THEN NoCmd ELSE [no |-> count + 1, op |-> op]
         /\ \/ /\ Reads(c, op)
               /\ at' = [at EXCEPT ![c] = "read"] /\ plan' = [plan EXCEPT ![c] = p]
               /\ no' = [no EXCEPT ![c] = count + 1]
               /\ alone' = [d \in Clients |-> d = c /\ Quiet(c)]
            \/ /\ ~Reads(c, op)
               /\ Advance(c, Tail(p))
               /\ alone' = [d \in Clients |-> FALSE] /\ UNCHANGED no
    /\ UNCHANGED <<response_buffer, read_index, got, told>>

\* Mutant of WriteBytes: a response that was not read to its end stays.
WriteBytesWaits(r) ==
    IF read_index = response_buffer.size THEN response_buffer' = r /\ read_index' = 0
    ELSE UNCHANGED <<response_buffer, read_index>>

\* write_bytes(): whatever was left of the former response is gone.
WriteBytes(r) == response_buffer' = r /\ read_index' = 0

\* The end of eval_cmd.  A response that cannot be encoded is dropped.
EvalCmd ==
    /\ cmd # NoCmd
    /\ \/ \E size \in Sizes[cmd.op] :
            WriteBytes([no |-> cmd.no, op |-> cmd.op, size |-> size])
       \/ cmd.op \in Unencodable /\ UNCHANGED <<response_buffer, read_index>>
    /\ cmd' = NoCmd
    /\ UNCHANGED <<at, plan, got, no, told, alone, count>>

\* Mutant of ReadSize: a whole buffer, however little is left.
ReadSizeWhole(left) == Chunk

ReadSize(left) == IF Chunk < left THEN Chunk ELSE left

\* What a client has after n more bytes of the response, from the read index on.
Extended(g, n) ==
    IF g # Garbled /\ g.len = read_index /\ g.of \in {NoResponse, response_buffer}
    THEN [of |-> response_buffer, len |-> read_index + n]
    ELSE Garbled

\* read() while something is left.
ReadSome(c) ==
    /\ cmd = NoCmd /\ at[c] = "read"
    /\ read_index # response_buffer.size
    /\ LET n == ReadSize(response_buffer.size - read_index) IN
         /\ read_index' = read_index + n
         /\ got' = [got EXCEPT ![c] = Extended(@, n)]
    /\ UNCHANGED <<cmd, response_buffer, at, plan, no, told, alone, count>>

\* The response a client shows: one that it has read as a whole, or one whose end is
\* missing and that parses all the same.  0 stands for none, and for a mixture.
Parsed(g) ==
    IF g \in {Garbled, Nothing} THEN {0}
    ELSE IF g.len = g.of.size THEN {g.of.no}
    ELSE IF g.of.op \in Cuttable THEN {0, g.of.no} ELSE {0}

\* Mutant of AtEnd: a read at the end starts over for the next reader.
AtEndRewound == read_index' = 0

AtEnd == UNCHANGED read_index

\* read() at the end of the response: the client parses what it has, a mixture of
\* responses perhaps.  A graphical client that cannot panics, one on the command line
\* ends either way.
ReadEnd(c) ==
    /\ cmd = NoCmd /\ at[c] = "read"
    /\ read_index = response_buffer.size
    /\ AtEnd
    /\ \E n \in Parsed(got[c]) :
         /\ told' = [told EXCEPT ![c] = n]
         /\ \/ /\ c \in Clis \/ n # 0 \/ got[c] = Garbled
               /\ Advance(c, Tail(plan[c]))
            \/ /\ c \in Guis /\ n = 0
               /\ at' = [at EXCEPT ![c] = "gone"] /\ plan' = [plan EXCEPT ![c] = <<>>]
    /\ Forget(c)
    /\ UNCHANGED <<cmd, response_buffer, count>>

-----------------------------------------------------------------------------
Read(c) == ReadSome(c) \/ ReadEnd(c)

Next ==
    \/ EvalCmd
    \/ \E c \in Clis : Interrupt(c)
    \/ \E c \in Clients : Write(c) \/ Read(c)

\* eval_cmd returns (ServiceMonitor!Serves), and the monitor's loop takes the requests
\* of all clients from one queue.  Nothing obliges a client to send a command.
Spec == Init /\ [][Next]_vars /\ WF_vars(EvalCmd) /\ \A c \in Clients : WF_vars(Read(c))

-----------------------------------------------------------------------------
(* Properties.                                                             *)

TypeOK ==
    /\ cmd \in Command \cup {NoCmd}
    /\ response_buffer \in Response
    /\ read_index \in 0 .. response_buffer.size
    /\ at \in [Clients -> {"idle", "write", "read", "gone"}]
    /\ plan \in [Clients -> Seq(Ops)]
    /\ got \in [Clients -> Prefix \cup {Garbled}]
    /\ no \in [Clients -> 0 .. count]
    /\ told \in [Clients -> 0 .. count]
    /\ alone \in [Clients -> BOOLEAN]
    /\ count \in 0 .. MaxCommands

\* A client that is about to write or read has a command, and the read index stays
\* inside the response (the slices of read() do not panic).
TypeInv ==
    /\ TypeOK
    /\ \A c \in Clients : at[c] \in {"write", "read"} => plan[c] # <<>>

\* A response reaches one client: when two overlap, at most one of them can show it.
OneReader ==
    \A c, d \in Clients : told[c] # 0 /\ told[c] = told[d] => c = d

\* The channel as the clients see it.
Exchange(c) ==
    IF at[c] = "read"
    THEN [no    |-> no[c],
          sure  |-> Head(plan[c]) \notin Unknown \cup Unencodable,
          alone |-> alone[c]]
    ELSE [no |-> 0, sure |-> FALSE, alone |-> FALSE]

waiting == [c \in Clients |-> Exchange(c)]

Answers == INSTANCE CommandAnswers

\* "repeating the command should succeed": a client that has the channel to itself
\* shows the whole response to its own command, whatever former clients left in the
\* buffer; no client shows a response older than its command; and an exchange ends
\* once commands stop coming.
ImplementsAnswers == Answers!Spec
=============================================================================
