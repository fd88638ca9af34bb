----------------------------- MODULE RespSession -----------------------------
(***************************************************************************)
(* One client connection of the RESP server: class Session of             *)
(* src/Assignment3/partc/src/server.cpp, its socket, and the store it      *)
(* dispatches to.                                                          *)
(*                                                                         *)
(* The bytes on the wire are a sequence of symbols: a data word Word(w)   *)
(* (the bytes of the string w), an array or bulk header Header("*", n) or  *)
(* Header("$", n), and the two line ends the server's getline can stop at, *)
(* CRLF and a bare LF.  A value with a line break inside it is a sequence  *)
(* of words and line ends.                                                 *)
(* The server consumes the input one line at a time, as                   *)
(* async_read_until("\r\n") followed by getline does: the handler runs     *)
(* when the buffer holds a CRLF, and takes the symbols up to the first     *)
(* line end of either kind.                                                *)
(*                                                                         *)
(* Handlers of one session never run at once (one read is outstanding at  *)
(* a time and the next read is armed at the end of the handler), so each   *)
(* read completion, with process_line, process_command and the start of    *)
(* send_response, is one step.  The store is the abstract map of KVStore:  *)
(* a single session sees its operations take effect atomically.  A reply  *)
(* is sent in two parts; the second part may be left to a later write      *)
(* completion when the socket's send buffer is full.                       *)
(***************************************************************************)
EXTENDS Naturals, Integers, Sequences, SequencesExt, TLC

CONSTANTS Cmds,     \* the commands the client sends: sequences of arguments
          Junk,     \* raw input a misbehaving client may send instead
          MaxCmds,  \* how many times the client writes
          MaxParts, \* bound on the parts of one command
          MaxSyms,  \* bound on the symbols of one argument
          Garbage,  \* bytes read from a destroyed std::string
          Faults    \* "partialwrite": a reply may be sent in two writes;
                    \* "storeerr": a store operation may throw

ASSUME MaxCmdsAssumption == MaxCmds \in Nat
ASSUME FaultsAssumption == Faults \subseteq {"partialwrite", "storeerr"}

VARIABLES in,       \* bytes received and not yet consumed by a read handler
          cmd,      \* current_command_
          expected, \* expected_parts_
          reading,  \* reading_bulk_string_
          blen,     \* bulk_string_length_
          bulk,     \* bulk_string_
          store,    \* the key-value store, as a partial function
          pend,     \* replies whose second part is still being written
          out,      \* reply parts the client has received, in order
          alive,    \* the server process is running
          sent,     \* (client) how many times the client has written
          expect,   \* (client) the replies the client should get
          ref       \* (client) the store as the client's commands left it

vars == <<in, cmd, expected, reading, blen, bulk, store, pend, out, alive,
          sent, expect, ref>>

-----------------------------------------------------------------------------
(***************************************************************************)
(* Bytes and lines.                                                        *)
(***************************************************************************)
Word(w) == [k |-> "word", s |-> w]

CRLF == [k |-> "crlf"]

LF == [k |-> "lf"]

\* "*<n>" or "$<n>" with a decimal count.
Header(h, n) == [k |-> h, n |-> n]

\* "*" or "$" followed by something std::stoi cannot read.
BadHeader(h) == [k |-> h \o "?"]

Sym == [k : {"word"}, s : STRING] \cup {CRLF, LF}
       \cup [k : {"*", "$"}, n : Int] \cup {BadHeader("*"), BadHeader("$")}

IsHeader(x) == x.k \in {"*", "$"}

IsBadHeader(x) == x.k \in {"*?", "$?"}

IsSep(x) == x \in {CRLF, LF}

\* The bytes of one symbol.  A count of the headers the client writes
\* has one or two digits.
SymLen(x) ==
    CASE x = CRLF    -> 2
      [] x = LF      -> 1
      [] IsHeader(x) -> 1 + (IF x.n < 10 THEN 1 ELSE 2)
      [] IsBadHeader(x) -> 2
      [] OTHER       -> Len(x.s)

\* size() of a string made of the symbols of s.
ByteLen(s) == FoldLeft(LAMBDA acc, x : acc + SymLen(x), 0, s)

\* async_read_until(socket_, buffer_, "\r\n") completes.
LineReady == CRLF \in Range(in)

\* getline stops at the first '\n'; the trailing '\r' is popped.
LineEnd == SelectInSeq(in, IsSep)

Line == SubSeq(in, 1, LineEnd - 1)

RestAfterLine == SubSeq(in, LineEnd + 1, Len(in))

-----------------------------------------------------------------------------
(***************************************************************************)
(* The replies, as values: formatting is left out.                         *)
(***************************************************************************)
OK == [t |-> "ok"]
Nil == [t |-> "nil"]
Bulk(v) == [t |-> "bulk", v |-> v]
IntReply(b) == [t |-> "int", n |-> IF b THEN 1 ELSE 0]
ErrEmpty == [t |-> "err", m |-> "empty command"]
ErrUnknown == [t |-> "err", m |-> "unknown command or wrong number of arguments"]

Without(s, k) == [x \in DOMAIN s \ {k} |-> s[x]]

IsStoreOp(args) ==
    \/ args[1] = <<Word("SET")>> /\ Len(args) = 3
    \/ args[1] = <<Word("GET")>> /\ Len(args) = 2
    \/ args[1] = <<Word("DEL")>> /\ Len(args) = 2

\* process_command's answer to args against store s.
CommandReply(args, s) ==
    IF args = <<>> THEN ErrEmpty
    ELSE IF args[1] = <<Word("SET")>> /\ Len(args) = 3 THEN OK
    ELSE IF args[1] = <<Word("GET")>> /\ Len(args) = 2
         THEN IF args[2] \in DOMAIN s THEN Bulk(s[args[2]]) ELSE Nil
    ELSE IF args[1] = <<Word("DEL")>> /\ Len(args) = 2 THEN IntReply(args[2] \in DOMAIN s)
    ELSE ErrUnknown

\* The store after process_command ran args.
CommandEffect(args, s) ==
    IF args = <<>> THEN s
    ELSE IF args[1] = <<Word("SET")>> /\ Len(args) = 3 THEN (args[2] :> args[3]) @@ s
    ELSE IF args[1] = <<Word("DEL")>> /\ Len(args) = 2 THEN Without(s, args[2])
    ELSE s

-----------------------------------------------------------------------------
(***************************************************************************)
(* The client: it writes whole frames in the wire format of spec 4.6,      *)
(* *<n> CRLF then $<len> CRLF <bytes> CRLF for every argument, and it      *)
(* records the reply the spec's dispatch table promises for each.          *)
(* ClientSend is the serialize and asio::write half of send_command; the   *)
(* client does not wait for a reply before its next write, so it may       *)
(* pipeline.  send_command's blocking read_response is not modelled: the   *)
(* repository's client, which sends one command per reply, is one of the  *)
(* schedules this client admits, and a pipelining client (any RESP client  *)
(* of the server) is the others.                                           *)
(***************************************************************************)
EncodeArg(a) == <<Header("$", ByteLen(a)), CRLF>> \o a \o <<CRLF>>

Encode(c) ==
    <<Header("*", Len(c)), CRLF>> \o FlattenSeq([i \in DOMAIN c |-> EncodeArg(c[i])])

ClientSend(c) ==
    /\ sent < MaxCmds
    /\ sent' = sent + 1
    /\ in' = in \o Encode(c)
    /\ expect' = Append(expect, CommandReply(c, ref))
    /\ ref' = CommandEffect(c, ref)
    /\ UNCHANGED <<cmd, expected, reading, blen, bulk, store, pend, out, alive>>

\* Input that is not a frame of the wire format; no reply is owed for it.
ClientSendJunk(j) ==
    /\ sent < MaxCmds
    /\ sent' = sent + 1
    /\ in' = in \o j
    /\ UNCHANGED <<cmd, expected, reading, blen, bulk, store, pend, out, alive,
                   expect, ref>>

-----------------------------------------------------------------------------
(***************************************************************************)
(* The server.                                                             *)
(***************************************************************************)
Init == /\ in = <<>>
        /\ cmd = <<>>
        /\ expected = -1
        /\ reading = FALSE
        /\ blen = 0
        /\ bulk = <<>>
        /\ store = <<>>
        /\ pend = <<>>
        /\ out = <<>>
        /\ alive = TRUE
        /\ sent = 0
        /\ expect = <<>>
        /\ ref = <<>>

\* The read handler fired: consume the line, keep the client's record.
Consume == /\ alive
           /\ LineReady
           /\ in' = RestAfterLine
           /\ UNCHANGED <<sent, expect, ref>>

\* send_response: asio::async_write of a buffer over the local response.
\* The first write_some runs inside the handler; when the send buffer is
\* full the rest is written by later completions.
SendResponse(r) ==
    \/ /\ out' = out \o <<[r |-> r, part |-> 1], [r |-> r, part |-> 2]>>
       /\ UNCHANGED pend
    \/ /\ "partialwrite" \in Faults
       /\ out' = Append(out, [r |-> r, part |-> 1])
       /\ pend' = Append(pend, r)

\* reset_state after a dispatch.
ResetState == /\ cmd' = <<>>
              /\ expected' = -1
              /\ reading' = FALSE
              /\ blen' = 0
              /\ bulk' = <<>>

\* Mutant: the "\r\n" the line lost is not put back.
ReadBulkPartNoSep ==
    /\ Consume
    /\ reading
    /\ ByteLen(bulk \o Line) # blen
    /\ bulk' = bulk \o Line
    /\ UNCHANGED <<cmd, expected, reading, blen, store, pend, out, alive>>

\* A line of a bulk body that does not complete it: append it and "\r\n".
ReadBulkPart ==
    /\ Consume
    /\ reading
    /\ ByteLen(bulk \o Line) # blen
    /\ bulk' = bulk \o Line \o <<CRLF>>
    /\ UNCHANGED <<cmd, expected, reading, blen, store, pend, out, alive>>

\* Mutant: the completed bulk string stays open (reading_bulk_string_ kept).
ReadBulkLastKeepReading ==
    /\ Consume
    /\ reading
    /\ ByteLen(bulk \o Line) = blen
    /\ Len(cmd) + 1 # expected
    /\ cmd' = Append(cmd, bulk \o Line)
    /\ bulk' = bulk \o Line
    /\ UNCHANGED <<expected, reading, blen, store, pend, out, alive>>

\* Mutant: the part pushed is the buffer before the last line was added.
ReadBulkLastDrop ==
    /\ Consume
    /\ reading
    /\ ByteLen(bulk \o Line) = blen
    /\ Len(cmd) + 1 # expected
    /\ cmd' = Append(cmd, bulk)
    /\ reading' = FALSE
    /\ bulk' = bulk \o Line
    /\ UNCHANGED <<expected, blen, store, pend, out, alive>>

\* The line completes the bulk string, and the command still lacks parts.
ReadBulkLast ==
    /\ Consume
    /\ reading
    /\ ByteLen(bulk \o Line) = blen
    /\ Len(cmd) + 1 # expected
    /\ cmd' = Append(cmd, bulk \o Line)
    /\ reading' = FALSE
    /\ bulk' = bulk \o Line
    /\ UNCHANGED <<expected, blen, store, pend, out, alive>>

\* Mutant: the part count is compared before the new part is counted.
ReadBulkDispatchLate ==
    /\ Consume
    /\ reading
    /\ ByteLen(bulk \o Line) = blen
    /\ Len(cmd) = expected
    /\ LET args == Append(cmd, bulk \o Line)
       IN  /\ store' = CommandEffect(args, store)
           /\ SendResponse(CommandReply(args, store))
    /\ ResetState
    /\ UNCHANGED alive

\* The line completes the last part: process_command, send_response,
\* reset_state.
ReadBulkDispatch ==
    /\ Consume
    /\ reading
    /\ ByteLen(bulk \o Line) = blen
    /\ Len(cmd) + 1 = expected
    /\ LET args == Append(cmd, bulk \o Line)
       IN  /\ store' = CommandEffect(args, store)
           /\ SendResponse(CommandReply(args, store))
    /\ ResetState
    /\ UNCHANGED alive

\* storageEngine.insert, get or erase throws (a shard file cannot be
\* opened or read): the exception leaves the handler and io_context::run,
\* the worker thread's function exits by an exception, std::terminate.
ReadBulkDispatchFail ==
    /\ "storeerr" \in Faults
    /\ Consume
    /\ reading
    /\ ByteLen(bulk \o Line) = blen
    /\ Len(cmd) + 1 = expected
    /\ IsStoreOp(Append(cmd, bulk \o Line))
    /\ alive' = FALSE
    /\ UNCHANGED <<cmd, expected, reading, blen, bulk, store, pend, out>>

\* An empty line outside a bulk body is skipped.
ReadEmpty ==
    /\ Consume
    /\ ~reading
    /\ Line = <<>>
    /\ UNCHANGED <<cmd, expected, reading, blen, bulk, store, pend, out, alive>>

\* "*<n>": expected_parts_ = stoi(n); current_command_.clear().
ReadArrayHeader ==
    /\ Consume
    /\ ~reading
    /\ Line # <<>>
    /\ Line[1].k = "*"
    /\ expected' = Line[1].n
    /\ cmd' = <<>>
    /\ UNCHANGED <<reading, blen, bulk, store, pend, out, alive>>

\* "$<n>": bulk_string_length_ = stoi(n); start reading the body.
ReadBulkHeader ==
    /\ Consume
    /\ ~reading
    /\ Line # <<>>
    /\ Line[1].k = "$"
    /\ blen' = Line[1].n
    /\ reading' = TRUE
    /\ bulk' = <<>>
    /\ UNCHANGED <<cmd, expected, store, pend, out, alive>>

\* A header whose count is not a number: std::stoi throws
\* invalid_argument out of the handler, and the process terminates.
ReadBadHeader ==
    /\ Consume
    /\ ~reading
    /\ Line # <<>>
    /\ IsBadHeader(Line[1])
    /\ alive' = FALSE
    /\ UNCHANGED <<cmd, expected, reading, blen, bulk, store, pend, out>>

\* Any other line is logged as unexpected input and ignored.
ReadOther ==
    /\ Consume
    /\ ~reading
    /\ Line # <<>>
    /\ ~IsHeader(Line[1])
    /\ ~IsBadHeader(Line[1])
    /\ UNCHANGED <<cmd, expected, reading, blen, bulk, store, pend, out, alive>>

\* A later completion of one of the outstanding async_writes sends the
\* rest of its reply.  The std::string the buffer points at was destroyed
\* when process_line returned, so what is sent is undefined: the old bytes
\* or others.
WriteRest ==
    /\ alive
    /\ \E i \in DOMAIN pend :
          /\ \E r \in {pend[i], Garbage} : out' = Append(out, [r |-> r, part |-> 2])
          /\ pend' = RemoveAt(pend, i)
    /\ UNCHANGED <<in, cmd, expected, reading, blen, bulk, store, alive,
                   sent, expect, ref>>

ServerStep ==
    \/ ReadBulkPart \/ ReadBulkLast \/ ReadBulkDispatch \/ ReadBulkDispatchFail
    \/ ReadEmpty \/ ReadArrayHeader \/ ReadBulkHeader \/ ReadBadHeader
    \/ ReadOther

Next ==
    \/ \E c \in Cmds : ClientSend(c)
    \/ \E j \in Junk : ClientSendJunk(j)
    \/ ServerStep
    \/ WriteRest

\* The worker threads run every ready handler: a read whose line has
\* arrived and a write whose socket can take bytes are eventually run.
Fairness == WF_vars(ServerStep) /\ WF_vars(WriteRest)

Spec == Init /\ [][Next]_vars /\ Fairness

-----------------------------------------------------------------------------
(***************************************************************************)
(* Properties.                                                             *)
(***************************************************************************)
Reply == {OK, Nil, ErrEmpty, ErrUnknown} \cup {IntReply(b) : b \in BOOLEAN}
         \cup [t : {"bulk"}, v : Seq(Sym)]

\* The session's state has its type, and the parser's buffers stay within
\* the bounds the client's frames give them.
TypeOK ==
    /\ in \in Seq(Sym)
    /\ cmd \in Seq(Seq(Sym)) /\ Len(cmd) <= MaxParts
    /\ expected \in Int
    /\ reading \in BOOLEAN
    /\ blen \in Int
    /\ bulk \in Seq(Sym) /\ Len(bulk) <= MaxSyms
    /\ DOMAIN store \subseteq Seq(Sym)
    /\ pend \in Seq(Reply)
    /\ out \in Seq([r : Reply \cup {Garbage}, part : {1, 2}])
    /\ alive \in BOOLEAN
    /\ sent \in 0..MaxCmds

\* The reply parts the client should receive, in request order.
ExpectedParts ==
    FlattenSeq([i \in DOMAIN expect |->
                   <<[r |-> expect[i], part |-> 1], [r |-> expect[i], part |-> 2]>>])

\* Spec 4.6 and 5 ("within a connection, responses are issued in request
\* order"): what the client has received is the replies of the dispatch
\* table, for the commands it sent, in order, with nothing torn or
\* interleaved; this covers the reassembly of bulk bodies split over
\* several lines and the store's answers.
RepliesInOrder == IsPrefix(out, ExpectedParts)

\* Spec 4.6 ("after dispatch, the session is ready for the next command"):
\* every command the client sends is eventually answered.
EveryCommandAnswered ==
    \A n \in 1..MaxCmds : (Len(expect) >= n) ~> (Len(out) >= 2 * n)

\* Spec 7 ("per-shard I/O errors do not tear down the store; they surface
\* to a single client"): a failing command never takes the server down.
NoTeardown == alive

=============================================================================
