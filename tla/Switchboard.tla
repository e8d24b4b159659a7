---------------------------- MODULE Switchboard ----------------------------
(***************************************************************************)
(* Proxy protocol mode: one listener receives the control and the data     *)
(* connections of all sessions.  The proxy loop hands a data connection to *)
(* the session that reserved its port for the client's address in the      *)
(* switchboard.                                                            *)
(*                                                                         *)
(* The proxy loop serves one message at a time and waits for the lock of   *)
(* the session that the message is about; an executor holds that lock for  *)
(* a whole transfer.  Clients wait for the reply to a command before they  *)
(* send the next.                                                          *)
(***************************************************************************)
EXTENDS Integers

CONSTANTS
  Sessions, NoSession,
  Sources,           \* addresses of clients, as the PROXY header gives them
  RangeStart,        \* port_range.start
  RangeEnd,          \* port_range.end, not itself in the range
  Width,             \* number of values of the integer type of ports (2^16)
  ControlPort,       \* external_control_port
  NoPort

VARIABLES
  board,     \* the switchboard: session registered for an address and a port
  sess,      \* the sessions and the clients they serve
  incoming,  \* accepted connections whose header is being parsed
  proxy      \* the proxy loop: message it handles, outcome of a reservation

vars == <<board, sess, incoming, proxy>>

-----------------------------------------------------------------------------
\* The upper limit is not in the range: the comment of reserve_next_free_port says
\* "(inclusive of the upper limit)", but the scan counts modulo range_size.
Ports == RangeStart..(RangeEnd - 1)
range_size == RangeEnd - RangeStart
Keys == Sources \X Ports

ASSUME SwitchboardAssumption ==
  /\ RangeStart \in Nat /\ RangeEnd \in Nat /\ RangeStart < RangeEnd
  /\ Width \in Nat /\ RangeEnd < Width
  /\ ControlPort \notin Ports \union {RangeEnd}
  /\ NoPort \notin Nat
  /\ NoSession \notin Sessions

\* ProxyHeaderReceived, AssignDataPortCommand and CloseDataPortCommand.  A
\* connection knows which session's client made it; the code does not.
Connection == [type : {"header"}, source : Sources, port : Ports \union {ControlPort, RangeEnd},
               from : Sessions]
ProxyLoopMsg == Connection \union [type : {"assign", "close"}, from : Sessions]
NoMsg == [type |-> "none"]

\* pc of the control loop; active is proxy_active_datachan, told the port that
\* the client may still connect to; exec the executor of the data connection.
SessionRecord ==
  [pc : {"none", "select", "assign", "await", "closing", "closed"}, source : Sources,
   active : Ports \union {NoPort}, told : Ports \union {NoPort},
   data_rx : BOOLEAN, exec : {"none", "waiting", "transfer"}]

ProxyRecord ==
  [msg : ProxyLoopMsg \union {NoMsg}, step : {"begin", "reply", "gone"}, first : 0..(Width - 1),
   port : Ports \union {NoPort}]

(***************************************************************************)
(* The values the variables take.                                          *)
(***************************************************************************)
TypeOK ==
  /\ board \in [Keys -> Sessions \union {NoSession}]
  /\ sess \in [Sessions -> SessionRecord]
  /\ incoming \subseteq Connection
  /\ proxy \in ProxyRecord

Idle == [msg |-> NoMsg, step |-> "begin", first |-> 0, port |-> NoPort]

Init ==
  /\ board = [k \in Keys |-> NoSession]
  /\ sess \in [Sessions -> [pc : {"none"}, source : Sources, active : {NoPort},
                            told : {NoPort}, data_rx : {FALSE}, exec : {"none"}]]
  /\ incoming = {}
  /\ proxy = Idle

-----------------------------------------------------------------------------
(* The sessions and their clients.                                         *)

\* The executor holds the session lock for the whole transfer.
LockFree(s) == sess[s].exec # "transfer"

Header(s, port) == [type |-> "header", source |-> sess[s].source, port |-> port, from |-> s]

\* Bound: a client makes a connection when the header of its last one is read.
NoneUnderWay(s) == \A c \in incoming : c.from # s

\* A client opens its control connection.
Connect(s) ==
  /\ sess[s].pc = "none"
  /\ NoneUnderWay(s)
  /\ incoming' = incoming \union {Header(s, ControlPort)}
  /\ "from" \in DOMAIN proxy.msg => proxy.msg.from # s
  /\ UNCHANGED <<board, sess, proxy>>

\* PASV in proxy mode: new channels to the data connection, which cut off an
\* executor that waits for a command; then the proxy loop is asked for a port.
Pasv(s) ==
  /\ sess[s].pc = "select"
  /\ LockFree(s)
  /\ sess' = [sess EXCEPT ![s].pc = "assign", ![s].data_rx = TRUE, ![s].told = NoPort,
                          ![s].exec = "none"]
  /\ UNCHANGED <<board, incoming, proxy>>

\* The client connects to the port it was told, or to one that is not in the range.
Dial(s) ==
  /\ sess[s].pc = "select" /\ sess[s].told # NoPort
  /\ NoneUnderWay(s)
  /\ \E port \in {sess[s].told, RangeEnd} : incoming' = incoming \union {Header(s, port)}
  /\ sess' = [sess EXCEPT ![s].told = NoPort]
  /\ UNCHANGED <<board, proxy>>

\* The executor gets its command; later the transfer is done, or its timeout is.
Transfer(s) ==
  /\ sess[s].pc = "select" /\ sess[s].exec = "waiting"
  /\ sess' = [sess EXCEPT ![s].exec = "transfer"]
  /\ UNCHANGED <<board, incoming, proxy>>
TransferDone(s) ==
  /\ sess[s].exec # "none"
  /\ sess' = [sess EXCEPT ![s].exec = "none"]
  /\ UNCHANGED <<board, incoming, proxy>>

\* ExitControlLoop: QUIT, a closed connection, shutdown.
Exit(s) ==
  /\ sess[s].pc \in {"select", "await"}
  /\ sess' = [sess EXCEPT ![s].pc = "closing", ![s].told = NoPort]
  /\ UNCHANGED <<board, incoming, proxy>>

\* The idle timeout and errors end the loop without a word to the proxy loop.
Dropped(s) ==
  /\ sess[s].pc \in {"select", "await"}
  /\ sess' = [sess EXCEPT ![s].pc = "closed", ![s].told = NoPort]
  /\ UNCHANGED <<board, incoming, proxy>>

-----------------------------------------------------------------------------
(* The proxy loop.  The channel to it has one place: a message counts as   *)
(* sent when the loop receives it.                                         *)

Gone == proxy.step = "gone"

Receive(msg) ==
  /\ proxy.msg = NoMsg /\ ~Gone
  /\ proxy' = [proxy EXCEPT !.msg = msg]

SendAssign(s) ==
  /\ sess[s].pc = "assign"
  /\ Receive([type |-> "assign", from |-> s])
  /\ sess' = [sess EXCEPT ![s].pc = "await"]
  /\ UNCHANGED <<board, incoming>>

SendClose(s) ==
  /\ sess[s].pc = "closing"
  /\ Receive([type |-> "close", from |-> s])
  /\ sess' = [sess EXCEPT ![s].pc = "closed"]
  /\ UNCHANGED <<board, incoming>>

\* Without the loop the send fails: PASV panics, the end of the session goes on.
SendFails(s) ==
  /\ Gone
  /\ sess[s].pc \in {"assign", "closing"}
  /\ sess' = [sess EXCEPT ![s].pc = "closed"]
  /\ UNCHANGED <<board, incoming, proxy>>

\* spawn_proxy_header_parsing: headers are sent in any order, or cannot be read.
SendHeader(c) ==
  /\ incoming' = incoming \ {c}
  /\ \/ Receive(c)
     \/ c.port # ControlPort /\ UNCHANGED proxy
  /\ UNCHANGED <<board, sess>>

Handling(type) == proxy.msg.type = type /\ proxy.step = "begin"
S == proxy.msg.from
Key == <<proxy.msg.source, proxy.msg.port>>

\* spawn_loop: the session begins.
SpawnLoop ==
  /\ Handling("header") /\ proxy.msg.port = ControlPort
  /\ sess' = [sess EXCEPT ![S].pc = "select"]
  /\ proxy' = Idle
  /\ UNCHANGED <<board, incoming>>

\* Nobody has reserved the port for this address, or it is not in the range.  In
\* the second case listen() returns if the connection cannot be shut down.
RefuseData ==
  /\ Handling("header") /\ proxy.msg.port # ControlPort
  /\ Key \in Keys => board[Key] = NoSession
  /\ \/ proxy' = Idle
     \/ Key \notin Keys /\ proxy' = [Idle EXCEPT !.step = "gone"]
  /\ UNCHANGED <<board, sess, incoming>>

\* dispatch_data_connection: spawn_processing waits for the session lock and
\* starts an executor if the receivers are there; then the entry is removed.
\* proxy_active_datachan is left as it is.  A late connection to an earlier
\* port of the session that has the same number counts as the one expected.
DispatchData ==
  /\ Handling("header")
  /\ Key \in Keys /\ board[Key] # NoSession
  /\ LockFree(board[Key])
  /\ sess' = [sess EXCEPT ![board[Key]].exec = IF sess[board[Key]].data_rx THEN "waiting" ELSE @,
                          ![board[Key]].data_rx = FALSE,
                          ![board[Key]].told = IF @ = proxy.msg.port THEN NoPort ELSE @]
  /\ board' = [board EXCEPT ![Key] = NoSession]
  /\ proxy' = Idle
  /\ UNCHANGED incoming

\* The port tried in round i of the scan that starts at a random number; the
\* sum wraps around at the width of the type.
Candidate(first, i) == RangeStart + (((first + i) % Width) % range_size)

\* Mutant of Rounds: the range is taken for one that ends a port earlier.
ShortRounds == 0..(range_size - 2)

Rounds == 0..range_size

\* The first free port of the scan, if there is one.
FirstFree(source, first) ==
  LET free == {i \in Rounds : board[<<source, Candidate(first, i)>>] = NoSession}
  IN  IF free = {} THEN NoPort
      ELSE Candidate(first, CHOOSE i \in free : \A j \in free : i <= j)

\* Mutant of Reserve: the port reserved before is not given back.
KeepsOldPort ==
  /\ Handling("assign")
  /\ LockFree(S)
  /\ \E first \in 0..(Width - 1) :
       LET source == sess[S].source
           port == FirstFree(source, first)
       IN  /\ proxy' = [proxy EXCEPT !.step = "reply", !.port = port,
                                !.first = IF port = NoPort THEN first ELSE 0]
           /\ IF port = NoPort
              THEN UNCHANGED <<board, sess>>
              ELSE /\ sess' = [sess EXCEPT ![S].active = port]
                   /\ board' = [board EXCEPT ![<<source, port>>] = S]
  /\ UNCHANGED incoming

\* Mutant of Reserve: the former port is given back also when it is the new one.
DropsSamePort ==
  /\ Handling("assign")
  /\ LockFree(S)
  /\ \E first \in 0..(Width - 1) :
       LET source == sess[S].source
           port == FirstFree(source, first)
           old == sess[S].active
       IN  /\ proxy' = [proxy EXCEPT !.step = "reply", !.port = port,
                                !.first = IF port = NoPort THEN first ELSE 0]
           /\ IF port = NoPort
              THEN UNCHANGED <<board, sess>>
              ELSE /\ sess' = [sess EXCEPT ![S].active = port]
                   /\ board' = [k \in Keys |->
                        CASE k = <<source, old>> -> NoSession
                          [] k = <<source, port>> /\ port # old -> S
                          [] OTHER -> board[k]]
  /\ UNCHANGED incoming

\* reserve_next_free_port, under the session lock: the new port is claimed, and
\* whoever is registered for the session's former port is removed.
Reserve ==
  /\ Handling("assign")
  /\ LockFree(S)
  /\ \E first \in 0..(Width - 1) :
       LET source == sess[S].source
           port == FirstFree(source, first)
           old == sess[S].active
       IN  /\ proxy' = [proxy EXCEPT !.step = "reply", !.port = port,
                                !.first = IF port = NoPort THEN first ELSE 0]
           /\ IF port = NoPort
              THEN UNCHANGED <<board, sess>>
              ELSE /\ sess' = [sess EXCEPT ![S].active = port]
                   /\ board' = [k \in Keys |->
                        CASE k = <<source, port>> -> S
                          [] k # <<source, port>> /\ k = <<source, old>> -> NoSession
                          [] OTHER -> board[k]]
  /\ UNCHANGED incoming

\* Mutants of Reply: no reply when there is no port; the port after it is told.
SilentOnError ==
  /\ proxy.msg.type = "assign" /\ proxy.step = "reply"
  /\ LockFree(S)
  /\ sess' = IF sess[S].pc = "await" /\ proxy.port # NoPort
             THEN [sess EXCEPT ![S].pc = "select", ![S].told = proxy.port]
             ELSE sess
  /\ proxy' = Idle
  /\ UNCHANGED <<board, incoming>>
TellsNextPort ==
  /\ proxy.msg.type = "assign" /\ proxy.step = "reply"
  /\ LockFree(S)
  /\ sess' = IF sess[S].pc = "await" /\ proxy.port # NoPort
             THEN [sess EXCEPT ![S].pc = "select", ![S].told = proxy.port + 1]
             ELSE sess
  /\ proxy' = Idle
  /\ UNCHANGED <<board, incoming>>

\* The reply goes to the control loop, if that is still there.  make_pasv_reply turns
\* it into an error if it cannot look up passive_host; the port stays reserved.
Reply ==
  /\ proxy.msg.type = "assign" /\ proxy.step = "reply"
  /\ LockFree(S)
  /\ IF sess[S].pc = "await"
     THEN \E told \in {proxy.port, NoPort} :
            sess' = [sess EXCEPT ![S].pc = "select", ![S].told = told]
     ELSE UNCHANGED sess
  /\ proxy' = Idle
  /\ UNCHANGED <<board, incoming>>

\* Mutant of CloseDataPort: the port is not freed.
IgnoresClose ==
  /\ Handling("close")
  /\ LockFree(S)
  /\ proxy' = Idle
  /\ UNCHANGED <<board, sess, incoming>>

CloseDataPort ==
  /\ Handling("close")
  /\ LockFree(S)
  /\ board' = IF sess[S].active = NoPort THEN board
              ELSE [board EXCEPT ![<<sess[S].source, sess[S].active>>] = NoSession]
  /\ proxy' = Idle
  /\ UNCHANGED <<sess, incoming>>

-----------------------------------------------------------------------------
ProxyLoop ==
  \/ SpawnLoop \/ RefuseData \/ DispatchData
  \/ Reserve \/ Reply \/ CloseDataPort

Sending(s) == SendAssign(s) \/ SendClose(s) \/ SendFails(s)

Next ==
  \/ \E s \in Sessions :
       \/ Connect(s) \/ Pasv(s) \/ Dial(s) \/ Transfer(s) \/ TransferDone(s)
       \/ Exit(s) \/ Dropped(s) \/ Sending(s)
  \/ \E c \in incoming : SendHeader(c)
  \/ ProxyLoop

\* The proxy loop runs, mpsc serves those who wait in order, transfers end.
Fairness ==
  /\ WF_vars(ProxyLoop)
  /\ \A s \in Sessions : SF_vars(Sending(s)) /\ WF_vars(TransferDone(s))

Spec == Init /\ [][Next]_vars /\ Fairness

-----------------------------------------------------------------------------
(***************************************************************************)
(* A session holds at most one port, whatever exits leave behind: the port *)
(* it holds, if any, is its proxy_active_datachan, and it is registered    *)
(* for the session's own client address.                                   *)
(***************************************************************************)
OnePortPerSession ==
  \A k \in Keys : board[k] # NoSession =>
    k = <<sess[board[k]].source, sess[board[k]].active>>

(***************************************************************************)
(* A client that was told a port, and whose address no other session       *)
(* shares, is still expected there, whatever connections of its own and of *)
(* others are under way and whatever other sessions give back.             *)
(***************************************************************************)
Alone(s) == \A t \in Sessions \ {s} : sess[t].source # sess[s].source
PromiseKept ==
  \A s \in Sessions :
    sess[s].told # NoPort /\ Alone(s) => board[<<sess[s].source, sess[s].told>>] = s

(***************************************************************************)
(* A scan that does not wrap around at the width of the port type only     *)
(* fails when every port of the range, which excludes its upper limit, is  *)
(* taken for the client's address.                                         *)
(***************************************************************************)
Taken(p) == board[<<sess[S].source, p>>] # NoSession
Failed == proxy.step = "reply" /\ proxy.port = NoPort /\ proxy.first + range_size < Width
ScanComplete == Failed => \A p \in Ports : Taken(p)

(***************************************************************************)
(* Every PASV is answered or its session ends, although the proxy loop     *)
(* waits for the transfers of other sessions, unless the loop itself has   *)
(* ended.                                                                  *)
(***************************************************************************)
PasvAnswered ==
  \A s \in Sessions : sess[s].pc \in {"assign", "await"} ~>
                      Gone \/ sess[s].pc \in {"select", "closing", "closed"}

(***************************************************************************)
(* "This is sent from the control loop when it exits, so that the port is  *)
(* freed": a session that exits by ExitControlLoop ends up with no port,   *)
(* for good, while there is a proxy loop.                                  *)
(***************************************************************************)
PortFreedOnExit ==
  \A s \in Sessions : sess[s].pc = "closing" ~> Gone \/ [](\A k \in Keys : board[k] # s)
=============================================================================
