------------------------- MODULE SwitchboardProofs -------------------------
(***************************************************************************)
(* What the switchboard promises, for any sessions, addresses, port range  *)
(* and width of the port type: a session holds one port, a client that was *)
(* told a port is expected there, and a scan that does not wrap around     *)
(* finds a free port if there is one.                                      *)
(***************************************************************************)
EXTENDS Switchboard, TLAPS, WellFoundedInduction

\* Only a control loop in select! has told its client of a port.
ToldInSelect == \A s \in Sessions : sess[s].told # NoPort => sess[s].pc = "select"

\* The session that asked the proxy loop is waiting for the reply, or is ending.
Asking ==
  proxy.msg.type \in {"assign", "close"} => sess[S].pc \in {"await", "closing", "closed"}

\* What the proxy loop is about to reply stands in the switchboard.
Replying ==
  proxy.step = "reply" =>
    /\ proxy.msg.type = "assign"
    /\ proxy.port # NoPort => board[<<sess[S].source, proxy.port>>] = S

\* A session whose control connection is still under way has not begun.
IsControl(c) == c.type = "header" /\ c.port = ControlPort
Beginning ==
  /\ \A c \in incoming : IsControl(c) => sess[c.from].pc = "none" /\ c # proxy.msg
  /\ IsControl(proxy.msg) => sess[S].pc = "none"

\* A connection comes from the address of its session.
Sourced ==
  /\ \A c \in incoming : c.source = sess[c.from].source
  /\ proxy.msg.type = "header" => proxy.msg.source = sess[S].source

Rest == ToldInSelect /\ Asking /\ Beginning /\ Sourced
Board == OnePortPerSession /\ PromiseKept /\ ScanComplete /\ Replying
Inv == TypeOK /\ Rest /\ Board

-----------------------------------------------------------------------------
(* The scan.                                                               *)

\* Division with remainder.
LEMMA DivMod ==
  ASSUME NEW n \in Nat \ {0}, NEW a \in Nat
  PROVE  \E q \in Nat : q * n + (a % n) = a
  <1> DEFINE r == a % n
             q == a \div n
  <1>1. r \in 0..(n - 1) /\ q \in Nat /\ q * n + r = a
    OBVIOUS
  <1> HIDE DEF q
  <1> QED  BY <1>1

\* The remainder is unique.
LEMMA ModUnique ==
  ASSUME NEW n \in Nat \ {0}, NEW q \in Nat, NEW d \in 0..(n - 1)
  PROVE  (q * n + d) % n = d
  <1> DEFINE y == (q * n + d) % n
  <1>1. q * n + d \in Nat
    OBVIOUS
  <1>2. PICK x \in Nat : x * n + y = q * n + d
    BY <1>1, DivMod
  <1>3. y \in 0..(n - 1)
    BY <1>1
  <1> HIDE DEF y
  <1>4. n * (q - x) = y - d
    BY <1>2, <1>3
  <1>5. CASE q - x >= 1
    <2>1. n * (q - x) >= n
      BY <1>5
    <2> QED  BY <2>1, <1>4, <1>3
  <1>6. CASE q - x <= -1
    <2>1. n * (q - x) <= -n
      BY <1>6
    <2> QED  BY <2>1, <1>4, <1>3
  <1>7. CASE q - x = 0
    <2>1. y = d
      BY <1>4, <1>7, <1>3
    <2> QED  BY <2>1 DEF y
  <1> QED  BY <1>5, <1>6, <1>7

\* n successive numbers have every remainder.
LEMMA EveryRemainder ==
  ASSUME NEW n \in Nat \ {0}, NEW first \in Nat, NEW d \in 0..(n - 1)
  PROVE  \E i \in 0..(n - 1) : (first + i) % n = d
  <1> DEFINE r == first % n
  <1>1. PICK q \in Nat : q * n + r = first
    BY DivMod
  <1>2. r \in 0..(n - 1)
    OBVIOUS
  <1> HIDE DEF r
  <1>3. CASE r <= d
    <2>1. first + (d - r) = q * n + d /\ d - r \in 0..(n - 1)
      BY <1>1, <1>2, <1>3
    <2> QED  BY <2>1, ModUnique
  <1>4. CASE d < r
    <2>1. first + (n + d - r) = (q + 1) * n + d /\ n + d - r \in 0..(n - 1)
      BY <1>1, <1>2, <1>4
    <2>2. ((q + 1) * n + d) % n = d
      BY ModUnique
    <2> QED  BY <2>1, <2>2
  <1> QED  BY <1>2, <1>3, <1>4

\* Every round tries a port of the range.
LEMMA CandidateInRange ==
  ASSUME NEW first \in 0..(Width - 1), NEW i \in Rounds PROVE Candidate(first, i) \in Ports
  <1>1. range_size \in Nat \ {0} /\ Width \in Nat \ {0} /\ first + i \in Nat
    BY SwitchboardAssumption DEF range_size, Rounds
  <1>2. (first + i) % Width \in Nat
    BY <1>1
  <1>3. ((first + i) % Width) % range_size \in 0..(range_size - 1)
    BY <1>1, <1>2
  <1> QED  BY <1>3, SwitchboardAssumption DEF Candidate, Ports, range_size

\* Without a wrap around, every port of the range is tried.
LEMMA ScanCovers ==
  ASSUME NEW first \in 0..(Width - 1), first + range_size < Width, NEW p \in Ports
  PROVE  \E i \in Rounds : Candidate(first, i) = p
  <1>1. range_size \in Nat \ {0} /\ first \in Nat /\ p - RangeStart \in 0..(range_size - 1)
    BY SwitchboardAssumption DEF range_size, Ports
  <1>2. PICK i \in 0..(range_size - 1) : (first + i) % range_size = p - RangeStart
    BY <1>1, EveryRemainder
  <1>3. first + i \in 0..(Width - 1)
    BY <1>1, SwitchboardAssumption
  <1>4. (first + i) % Width = first + i
    <2>1. (0 * Width + (first + i)) % Width = first + i
      BY <1>3, ModUnique, SwitchboardAssumption
    <2> QED  BY <2>1, <1>3, SwitchboardAssumption
  <1>5. Candidate(first, i) = p
    BY <1>2, <1>4, <1>1, SwitchboardAssumption DEF Candidate, Ports
  <1>6. i \in Rounds
    BY <1>1 DEF Rounds
  <1> QED  BY <1>5, <1>6

\* FirstFree is a free port, or there is none among those tried.
LEMMA FirstFreeIs ==
  ASSUME NEW source \in Sources, NEW first \in 0..(Width - 1)
  PROVE  \/ /\ FirstFree(source, first) \in Ports
            /\ board[<<source, FirstFree(source, first)>>] = NoSession
         \/ /\ FirstFree(source, first) = NoPort
            /\ \A i \in Rounds : board[<<source, Candidate(first, i)>>] # NoSession
  <1> DEFINE free == {i \in Rounds : board[<<source, Candidate(first, i)>>] = NoSession}
  <1>1. CASE free = {}
    BY <1>1 DEF FirstFree
  <1>2. CASE free # {}
    <2> DEFINE i == CHOOSE k \in free : \A j \in free : k <= j
    <2>1. \E k \in free : \A j \in free : k <= j
      <3>1. Rounds \subseteq Nat
        BY SwitchboardAssumption DEF Rounds, range_size
      <3> DEFINE less == {ss \in Nat \X Nat : ss[1] < ss[2]}
      <3>2. IsWellFoundedOn(less, Nat)
        BY NatLessThanWellFounded, Zenon DEF OpToRel
      <3>3. \A x, y \in Nat : x < y => <<x, y>> \in less
        OBVIOUS
      <3> HIDE DEF less
      <3>4. PICK k \in free : \A j \in free : ~(<<j, k>> \in less)
        <4> HIDE DEF free
        <4>1. free \subseteq Nat
          BY <3>1 DEF free
        <4> QED  BY <1>2, <3>2, <4>1, WFMin
      <3>5. \A j \in free : ~(j < k)
        BY <3>1, <3>3, <3>4
      <3> QED  BY <3>1, <3>5
    <2>2. i \in free
      BY <2>1
    <2>3. FirstFree(source, first) = Candidate(first, i)
      BY <1>2 DEF FirstFree
    <2> HIDE DEF i
    <2> QED  BY <2>2, <2>3, CandidateInRange
  <1> QED  BY <1>1, <1>2

-----------------------------------------------------------------------------
(* The steps.                                                              *)

\* Nothing is registered and nobody has been told anything at first.
LEMMA InitInv == Init => Inv
  <1> SUFFICES ASSUME Init PROVE Inv  OBVIOUS
  <1>1. /\ board = [k \in Keys |-> NoSession] /\ incoming = {}
        /\ proxy.msg = NoMsg /\ proxy.step = "begin"
        /\ \A s \in Sessions : sess[s].told = NoPort
    BY DEF Init, Idle
  <1>2. TypeOK
    <2>1. sess \in [Sessions -> SessionRecord]
      BY DEF Init, SessionRecord
    <2>2. proxy \in ProxyRecord
      BY SwitchboardAssumption DEF Init, Idle, ProxyRecord
    <2> QED  BY <1>1, <2>1, <2>2 DEF TypeOK
  <1>3. Rest
    BY <1>1 DEF Rest, ToldInSelect, Asking, Beginning, Sourced, IsControl, NoMsg
  <1>4. Board
    BY <1>1 DEF Board, OnePortPerSession, PromiseKept, ScanComplete, Failed, Replying
  <1> QED  BY <1>2, <1>3, <1>4 DEF Inv

\* Steps that leave the switchboard, the holders of its ports and a pending reply
\* alone keep what is promised of it.
LEMMA BoardFrame ==
  ASSUME Inv, board' = board, sess' \in [Sessions -> SessionRecord],
         \A t \in Sessions :
           /\ sess'[t].source = sess[t].source /\ sess'[t].active = sess[t].active
           /\ sess'[t].told \in {sess[t].told, NoPort},
         proxy' = proxy \/ proxy'.step # "reply"
  PROVE  Board'
  <1>1. \A k \in Keys : board[k] \in Sessions \union {NoSession}
    BY DEF Inv, TypeOK
  <1>2. OnePortPerSession'
    BY <1>1 DEF Inv, Board, OnePortPerSession
  <1>3. PromiseKept'
    BY DEF Inv, Board, PromiseKept, Alone
  <1>4. ScanComplete' /\ Replying'
    <2>1. CASE proxy'.step # "reply"
      BY <2>1 DEF ScanComplete, Failed, Replying
    <2>2. CASE proxy' = proxy
      <3>1. proxy.step = "reply" => S \in Sessions
        BY DEF Inv, Board, Replying, TypeOK, ProxyRecord, ProxyLoopMsg, Connection, NoMsg, S
      <3> QED  BY <2>2, <3>1 DEF Inv, Board, ScanComplete, Failed, Taken, Replying, S
    <2> QED  BY <2>1, <2>2
  <1> QED  BY <1>2, <1>3, <1>4 DEF Board

\* What a session or its client does on its own.
SessionStep(s) ==
  Pasv(s) \/ Dial(s) \/ Transfer(s) \/ TransferDone(s) \/ Exit(s) \/ Dropped(s) \/ SendFails(s)

\* These steps begin no session, and none that the proxy loop has been asked by.
LEMMA SessionSteps ==
  ASSUME Inv, NEW s \in Sessions, SessionStep(s) PROVE Inv'
  <1> USE SwitchboardAssumption
  <1>1. board' = board /\ proxy' = proxy
    BY DEF SessionStep, Pasv, Dial, Transfer, TransferDone, Exit, Dropped, SendFails
  <1>2. sess \in [Sessions -> SessionRecord] /\ sess[s] \in SessionRecord
    BY DEF Inv, TypeOK
  <1>3. PICK r \in SessionRecord :
          /\ sess' = [sess EXCEPT ![s] = r]
          /\ r.source = sess[s].source /\ r.active = sess[s].active
          /\ r.told \in {sess[s].told, NoPort} /\ (r.told # NoPort => r.pc = "select")
          /\ (r.pc = "none") <=> (sess[s].pc = "none")
          /\ sess[s].pc \in {"await", "closing", "closed"} => r.pc \in {"await", "closing", "closed"}
    <2>1. CASE Pasv(s)
      BY <2>1, <1>2 DEF Inv, Rest, Pasv, SessionRecord
    <2>2. CASE Dial(s)
      BY <2>2, <1>2 DEF Inv, Rest, Dial, SessionRecord
    <2>3. CASE Transfer(s) \/ TransferDone(s)
      BY <2>3, <1>2 DEF Inv, Rest, ToldInSelect, Transfer, TransferDone, SessionRecord
    <2>4. CASE Exit(s) \/ Dropped(s)
      BY <2>4, <1>2 DEF Inv, Rest, Exit, Dropped, SessionRecord
    <2>5. CASE SendFails(s)
      <3>1. sess[s].told = NoPort /\ sess[s].pc \in {"assign", "closing"}
        BY <2>5 DEF Inv, Rest, ToldInSelect, SendFails
      <3>2. [sess[s] EXCEPT !.pc = "closed"] \in SessionRecord
        BY <1>2 DEF SessionRecord
      <3>3. sess' = [sess EXCEPT ![s] = [sess[s] EXCEPT !.pc = "closed"]]
        BY <2>5, <1>2 DEF SendFails
      <3> QED  BY <3>1, <3>2, <3>3, <1>2 DEF SessionRecord
    <2> QED  BY <2>1, <2>2, <2>3, <2>4, <2>5 DEF SessionStep
  <1>4. sess' \in [Sessions -> SessionRecord] /\ sess'[s] = r
        /\ \A t \in Sessions : t # s => sess'[t] = sess[t]
    BY <1>2, <1>3
  <1>5. incoming' \subseteq Connection /\ \A c \in incoming' :
           c \in incoming \/ (~IsControl(c) /\ c.from = s /\ c.source = sess[s].source)
    <2>1. CASE Dial(s)
      <3>1. PICK port \in {sess[s].told, RangeEnd} : incoming' = incoming \union {Header(s, port)}
        BY <2>1 DEF Dial
      <3>2. port \in Ports \union {RangeEnd}
        BY <2>1, <1>2 DEF Dial, SessionRecord
      <3>3. Header(s, port) \in Connection /\ ~IsControl(Header(s, port))
            /\ Header(s, port).from = s /\ Header(s, port).source = sess[s].source
        BY <3>2, <1>2 DEF Header, Connection, IsControl, SessionRecord
      <3> QED  BY <3>1, <3>3 DEF Inv, TypeOK
    <2>2. CASE ~Dial(s)
      BY <2>2 DEF SessionStep, Pasv, Transfer, TransferDone, Exit, Dropped, SendFails, Inv, TypeOK
    <2> QED  BY <2>1, <2>2
  <1>6. Board'
    BY <1>1, <1>3, <1>4, BoardFrame
  <1>7. TypeOK'
    BY <1>1, <1>4, <1>5 DEF Inv, TypeOK
  <1>8. ToldInSelect'
    BY <1>3, <1>4 DEF Inv, Rest, ToldInSelect
  <1>9. Asking'
    BY <1>1, <1>3, <1>4 DEF Inv, Rest, Asking, TypeOK, ProxyRecord, ProxyLoopMsg, Connection, NoMsg, S
  <1>10. Beginning'
    <2>1. \A t \in Sessions : sess[t].pc = "none" => sess'[t].pc = "none"
      BY <1>3, <1>4
    <2>2. \A c \in incoming : c.from \in Sessions
      BY DEF Inv, TypeOK, Connection
    <2>3. IsControl(proxy.msg) => S \in Sessions
      BY DEF Inv, TypeOK, IsControl, ProxyRecord, ProxyLoopMsg, Connection, NoMsg, S
    <2> QED  BY <1>1, <1>5, <2>1, <2>2, <2>3 DEF Inv, Rest, Beginning, IsControl, S
  <1>11. Sourced'
    <2>1. \A t \in Sessions : sess'[t].source = sess[t].source
      BY <1>3, <1>4
    <2>2. \A c \in incoming : c.from \in Sessions
      BY DEF Inv, TypeOK, Connection
    <2>3. proxy.msg.type = "header" => S \in Sessions
      BY DEF Inv, TypeOK, ProxyRecord, ProxyLoopMsg, Connection, NoMsg, S
    <2> QED  BY <1>1, <1>5, <2>1, <2>2, <2>3 DEF Inv, Rest, Sourced, S
  <1> QED  BY <1>6, <1>7, <1>8, <1>9, <1>10, <1>11 DEF Inv, Rest

\* A control connection is made for a session that has not begun.
LEMMA ConnectStep ==
  ASSUME Inv, NEW s \in Sessions, Connect(s) PROVE Inv'
  <1>1. UNCHANGED <<board, sess, proxy>> /\ sess[s].pc = "none"
        /\ incoming' = incoming \union {Header(s, ControlPort)}
    BY DEF Connect
  <1>2. Header(s, ControlPort) \in Connection
    BY DEF Inv, TypeOK, SessionRecord, Header, Connection
  <1>3. /\ Header(s, ControlPort).from = s /\ Header(s, ControlPort).source = sess[s].source
        /\ Header(s, ControlPort) # proxy.msg
    BY DEF Connect, Header
  <1>4. Board'
    BY <1>1, BoardFrame DEF Inv, TypeOK
  <1>5. TypeOK'
    BY <1>1, <1>2 DEF Inv, TypeOK
  <1>6. Rest'
    BY <1>1, <1>3 DEF Inv, Rest, ToldInSelect, Asking, Beginning, Sourced, IsControl, S
  <1> QED  BY <1>4, <1>5, <1>6 DEF Inv

\* A session asks for a port or gives it back.
LEMMA SendSteps ==
  ASSUME Inv, NEW s \in Sessions, SendAssign(s) \/ SendClose(s) PROVE Inv'
  <1>1. PICK msg \in [type : {"assign", "close"}, from : Sessions],
             pc \in {"await", "closed"} :
          /\ msg.from = s
          /\ proxy.msg = NoMsg /\ proxy' = [proxy EXCEPT !.msg = msg]
          /\ sess' = [sess EXCEPT ![s].pc = pc]
          /\ sess[s].pc \in {"assign", "closing"}
          /\ UNCHANGED <<board, incoming>>
    <2>1. CASE SendAssign(s)
      <3> DEFINE m == [type |-> "assign", from |-> s]
      <3>1. m \in [type : {"assign", "close"}, from : Sessions] /\ m.from = s
        OBVIOUS
      <3> QED  BY <2>1, <3>1 DEF SendAssign, Receive
    <2>2. CASE SendClose(s)
      <3> DEFINE m == [type |-> "close", from |-> s]
      <3>1. m \in [type : {"assign", "close"}, from : Sessions] /\ m.from = s
        OBVIOUS
      <3> QED  BY <2>2, <3>1 DEF SendClose, Receive
    <2> QED  BY <2>1, <2>2
  <1>2. sess \in [Sessions -> SessionRecord] /\ sess[s] \in SessionRecord /\ sess[s].told = NoPort
    BY <1>1 DEF Inv, TypeOK, Rest, ToldInSelect
  <1> DEFINE r == [sess[s] EXCEPT !.pc = pc]
  <1>3. r \in SessionRecord /\ r.pc = pc /\ r.source = sess[s].source /\ r.active = sess[s].active
        /\ r.told = sess[s].told
    BY <1>2 DEF SessionRecord
  <1>4. sess' = [sess EXCEPT ![s] = r]
    BY <1>1, <1>2
  <1> HIDE DEF r
  <1>5. sess' \in [Sessions -> SessionRecord] /\ sess'[s] = r
        /\ \A t \in Sessions : t # s => sess'[t] = sess[t]
    BY <1>2, <1>3, <1>4
  <1>6. proxy' \in ProxyRecord /\ proxy'.msg = msg /\ proxy'.step # "reply"
    <2>1. proxy.step # "reply"
      BY <1>1 DEF Inv, Board, Replying, NoMsg
    <2> QED  BY <1>1, <2>1 DEF Inv, TypeOK, ProxyRecord, ProxyLoopMsg
  <1>7. Board'
    BY <1>1, <1>3, <1>5, <1>6, BoardFrame
  <1>8. TypeOK'
    BY <1>1, <1>5, <1>6 DEF Inv, TypeOK
  <1>9. ToldInSelect'
    BY <1>2, <1>3, <1>5 DEF Inv, Rest, ToldInSelect
  <1>10. Asking'
    BY <1>1, <1>3, <1>5, <1>6 DEF Asking, S
  <1>11. Beginning'
    <2>1. \A t \in Sessions : sess[t].pc = "none" => sess'[t].pc = "none"
      BY <1>1, <1>5
    <2>2. \A c \in incoming : c.from \in Sessions
      BY DEF Inv, TypeOK, Connection
    <2>3. ~IsControl(msg)
      BY DEF IsControl
    <2> QED  BY <1>1, <1>6, <2>1, <2>2, <2>3 DEF Inv, Rest, Beginning, IsControl
  <1>12. Sourced'
    <2>1. \A t \in Sessions : sess'[t].source = sess[t].source
      BY <1>3, <1>5
    <2>2. \A c \in incoming : c.from \in Sessions
      BY DEF Inv, TypeOK, Connection
    <2> QED  BY <1>1, <1>6, <2>1, <2>2 DEF Inv, Rest, Sourced
  <1> QED  BY <1>7, <1>8, <1>9, <1>10, <1>11, <1>12 DEF Inv, Rest

\* A header reaches the proxy loop, or is none.
LEMMA HeaderSteps ==
  ASSUME Inv, NEW c \in incoming, SendHeader(c) PROVE Inv'
  <1>1. UNCHANGED <<board, sess>> /\ incoming' = incoming \ {c}
    BY DEF SendHeader
  <1>2. c \in Connection /\ c.type = "header" /\ c.from \in Sessions
    BY DEF Inv, TypeOK, Connection
  <1>3. CASE proxy' = proxy
    <2>1. Board'
      BY <1>1, <1>3, BoardFrame DEF Inv, TypeOK
    <2> QED  BY <1>1, <1>3, <2>1 DEF Inv, TypeOK, Rest, ToldInSelect, Asking, Beginning, Sourced, IsControl, S
  <1>4. CASE Receive(c)
    <2>1. proxy.step # "reply"
      BY <1>4 DEF Receive, Inv, Board, Replying, NoMsg
    <2>2. proxy' \in ProxyRecord /\ proxy'.msg = c /\ proxy'.step # "reply"
      BY <1>2, <1>4, <2>1 DEF Receive, Inv, TypeOK, ProxyRecord, ProxyLoopMsg
    <2>3. Board'
      BY <1>1, <2>2, BoardFrame DEF Inv, TypeOK
    <2>4. TypeOK'
      BY <1>1, <2>2 DEF Inv, TypeOK
    <2>5. Rest'
      BY <1>1, <1>2, <2>2 DEF Inv, Rest, ToldInSelect, Asking, Beginning, Sourced, IsControl, S
    <2> QED  BY <2>3, <2>4, <2>5 DEF Inv
  <1> QED  BY <1>3, <1>4 DEF SendHeader

\* The proxy loop is done with a message: nobody waits for it any more, and nobody
\* has begun who still has a control connection under way.
LEMMA RestWhenIdle ==
  ASSUME Inv, proxy'.msg = NoMsg, UNCHANGED incoming,
         \A t \in Sessions :
           /\ sess'[t].source = sess[t].source
           /\ sess'[t].told # NoPort => sess'[t].pc = "select",
         \A c \in incoming : IsControl(c) => sess'[c.from].pc = sess[c.from].pc
  PROVE  Rest'
  <1>1. \A c \in incoming : c.from \in Sessions
    BY DEF Inv, TypeOK, Connection
  <1>2. ToldInSelect'
    BY DEF ToldInSelect
  <1>3. Asking' /\ Sourced'
    BY <1>1 DEF Inv, Rest, Asking, Sourced, NoMsg
  <1>4. Beginning'
    BY DEF Inv, Rest, Beginning, IsControl, NoMsg
  <1> QED  BY <1>2, <1>3, <1>4 DEF Rest

\* Idle is a state of the proxy loop.
LEMMA IdleType == Idle \in ProxyRecord /\ [Idle EXCEPT !.step = "gone"] \in ProxyRecord
  BY SwitchboardAssumption DEF Idle, ProxyRecord

\* The session that begins has no other control connection under way.
LEMMA SpawnStep == ASSUME Inv, SpawnLoop PROVE Inv'
  <1>1. /\ S \in Sessions /\ IsControl(proxy.msg) /\ proxy.msg \in Connection
        /\ sess' = [sess EXCEPT ![S].pc = "select"] /\ proxy' = Idle /\ UNCHANGED <<board, incoming>>
    BY DEF SpawnLoop, Handling, S, IsControl, Inv, TypeOK, ProxyRecord, ProxyLoopMsg, Connection, NoMsg
  <1> DEFINE s == S
             r == [sess[s] EXCEPT !.pc = "select"]
  <1>2. sess \in [Sessions -> SessionRecord] /\ sess[s] \in SessionRecord
    BY <1>1 DEF Inv, TypeOK
  <1>3. r \in SessionRecord /\ r.pc = "select" /\ r.source = sess[s].source
        /\ r.active = sess[s].active /\ r.told = sess[s].told
    BY <1>2 DEF SessionRecord
  <1>4. sess' = [sess EXCEPT ![s] = r]
    BY <1>1, <1>2
  <1>5. \A c \in incoming : IsControl(c) => c.from # s
    BY <1>1 DEF Inv, TypeOK, Rest, Beginning, Sourced, IsControl, Connection, S
  <1> HIDE DEF r, s
  <1>6. s \in Sessions
    BY <1>1 DEF s
  <1>7. sess' \in [Sessions -> SessionRecord] /\ sess'[s] = r
        /\ \A t \in Sessions : t # s => sess'[t] = sess[t]
    BY <1>2, <1>3, <1>4, <1>6
  <1>8. proxy'.step = "begin" /\ proxy'.msg = NoMsg
    BY <1>1 DEF Idle
  <1>9. TypeOK'
    BY <1>1, <1>7, IdleType DEF Inv, TypeOK
  <1>10. Board'
    BY <1>1, <1>3, <1>7, <1>8, BoardFrame
  <1>11. Rest'
    <2>1. \A t \in Sessions : sess'[t].source = sess[t].source
                              /\ (sess'[t].told # NoPort => sess'[t].pc = "select")
      BY <1>3, <1>7 DEF Inv, Rest, ToldInSelect
    <2>2. \A c \in incoming : IsControl(c) => sess'[c.from].pc = sess[c.from].pc
      BY <1>5, <1>7 DEF Inv, TypeOK, Connection
    <2> QED  BY <1>1, <1>8, <2>1, <2>2, RestWhenIdle
  <1> QED  BY <1>9, <1>10, <1>11 DEF Inv

\* A connection that is refused leaves everything as it is.
LEMMA RefuseStep == ASSUME Inv, RefuseData PROVE Inv'
  <1>1. /\ UNCHANGED <<board, sess, incoming>>
        /\ proxy' \in ProxyRecord /\ proxy'.msg = NoMsg /\ proxy'.step # "reply"
    BY IdleType DEF RefuseData, Idle
  <1>2. Board'
    BY <1>1, BoardFrame DEF Inv, TypeOK
  <1>3. Rest'
    BY <1>1, RestWhenIdle DEF Inv, Rest, ToldInSelect
  <1> QED  BY <1>1, <1>2, <1>3 DEF Inv, TypeOK

\* A session whose message the proxy loop handles has told its client of no port.
LEMMA AskingUntold ==
  ASSUME Inv, proxy.msg.type \in {"assign", "close"}
  PROVE  S \in Sessions /\ sess[S].told = NoPort
  <1>1. S \in Sessions
    BY DEF Inv, TypeOK, ProxyRecord, ProxyLoopMsg, Connection, NoMsg, S
  <1> QED  BY <1>1 DEF Inv, Rest, Asking, ToldInSelect

\* The port given back is not one that a lonely client was told.
LEMMA CloseStep == ASSUME Inv, CloseDataPort PROVE Inv'
  <1> DEFINE s == S
  <1>1. /\ proxy.msg.type = "close" /\ proxy' = Idle /\ UNCHANGED <<sess, incoming>>
        /\ board' = IF sess[s].active = NoPort THEN board
                    ELSE [board EXCEPT ![<<sess[s].source, sess[s].active>>] = NoSession]
    BY DEF CloseDataPort, Handling
  <1>2. s \in Sessions /\ sess[s].told = NoPort
    BY <1>1, AskingUntold
  <1> HIDE DEF s
  <1>3. sess[s] \in SessionRecord /\ board \in [Keys -> Sessions \union {NoSession}]
    BY <1>2 DEF Inv, TypeOK
  <1>4. \A k \in Keys : board'[k] = board[k] \/ (board'[k] = NoSession /\ k[1] = sess[s].source)
    BY <1>1, <1>3 DEF Keys
  <1>5. board' \in [Keys -> Sessions \union {NoSession}]
    BY <1>1, <1>3
  <1>6. proxy'.step = "begin" /\ proxy'.msg = NoMsg
    BY <1>1 DEF Idle
  <1>7. OnePortPerSession'
    BY <1>1, <1>4 DEF Inv, Board, OnePortPerSession
  <1>8. PromiseKept'
    <2> SUFFICES ASSUME NEW t \in Sessions, sess[t].told # NoPort, Alone(t)
                 PROVE  board'[<<sess[t].source, sess[t].told>>] = t
      BY <1>1 DEF PromiseKept, Alone
    <2>1. board[<<sess[t].source, sess[t].told>>] = t
      BY DEF Inv, Board, PromiseKept
    <2>2. <<sess[t].source, sess[t].told>> \in Keys
      BY DEF Inv, TypeOK, SessionRecord, Keys
    <2>3. sess[s].source # sess[t].source
      BY <1>2 DEF Alone
    <2> QED  BY <1>4, <2>1, <2>2, <2>3
  <1>9. Board'
    BY <1>6, <1>7, <1>8 DEF Board, ScanComplete, Failed, Replying
  <1>10. Rest'
    BY <1>1, <1>6, RestWhenIdle DEF Inv, Rest, ToldInSelect
  <1> QED  BY <1>1, <1>5, <1>9, <1>10, IdleType DEF Inv, TypeOK

\* The client is told the port that was reserved for it, or nothing.
LEMMA ReplyStep == ASSUME Inv, Reply PROVE Inv'
  <1> DEFINE s == S
  <1>1. /\ proxy.msg.type = "assign" /\ proxy.step = "reply" /\ proxy' = Idle
        /\ UNCHANGED <<board, incoming>>
    BY DEF Reply
  <1>2. s \in Sessions /\ sess[s].told = NoPort
    BY <1>1, AskingUntold
  <1>3. sess \in [Sessions -> SessionRecord] /\ sess[s] \in SessionRecord
        /\ proxy.port \in Ports \union {NoPort}
    BY <1>2 DEF Inv, TypeOK, ProxyRecord
  <1>4. PICK told \in {proxy.port, NoPort} :
          \/ sess' = sess
          \/ sess[s].pc = "await" /\ sess' = [sess EXCEPT ![s].pc = "select", ![s].told = told]
    BY DEF Reply
  <1> DEFINE r == [sess[s] EXCEPT !.pc = "select", !.told = told]
  <1>5. /\ r \in SessionRecord /\ r.pc = "select" /\ r.source = sess[s].source
        /\ r.active = sess[s].active /\ r.told = told
        /\ sess' = sess \/ (sess[s].pc = "await" /\ sess' = [sess EXCEPT ![s] = r])
    <2>1. told \in Ports \union {NoPort}
      BY <1>3
    <2>2. r \in SessionRecord
      BY <1>3, <2>1 DEF SessionRecord
    <2>3. r.pc = "select" /\ r.source = sess[s].source /\ r.active = sess[s].active /\ r.told = told
      BY <1>3 DEF SessionRecord
    <2>4. sess' = sess \/ (sess[s].pc = "await" /\ sess' = [sess EXCEPT ![s] = r])
      BY <1>2, <1>3, <1>4
    <2> QED  BY <2>2, <2>3, <2>4
  <1>6. proxy'.step = "begin" /\ proxy'.msg = NoMsg
    BY <1>1 DEF Idle
  <1>7. proxy.port # NoPort => board[<<sess[s].source, proxy.port>>] = s
    BY <1>1 DEF Inv, Board, Replying
  <1> HIDE DEF r, s
  <1>8. CASE sess' = sess
    <2>1. Board'
      BY <1>1, <1>3, <1>6, <1>8, BoardFrame
    <2>2. Rest'
      BY <1>1, <1>6, <1>8, RestWhenIdle DEF Inv, Rest, ToldInSelect
    <2> QED  BY <1>1, <1>8, <2>1, <2>2, IdleType DEF Inv, TypeOK
  <1>9. CASE sess[s].pc = "await" /\ sess' = [sess EXCEPT ![s] = r]
    <2>1. sess' \in [Sessions -> SessionRecord] /\ sess'[s] = r
          /\ \A t \in Sessions : t # s => sess'[t] = sess[t]
      BY <1>2, <1>3, <1>5, <1>9
    <2>2. \A t \in Sessions : sess'[t].source = sess[t].source /\ sess'[t].active = sess[t].active
      BY <1>5, <2>1
    <2>3. \A k \in Keys : board[k] \in Sessions \union {NoSession}
      BY DEF Inv, TypeOK
    <2>4. OnePortPerSession'
      BY <1>1, <2>2, <2>3 DEF Inv, Board, OnePortPerSession
    <2>5. PromiseKept'
      BY <1>1, <1>5, <1>7, <2>1, <2>2 DEF Inv, Board, PromiseKept, Alone
    <2>6. Board'
      BY <1>6, <2>4, <2>5 DEF Board, ScanComplete, Failed, Replying
    <2>7. \A t \in Sessions : sess'[t].told # NoPort => sess'[t].pc = "select"
      BY <1>5, <2>1 DEF Inv, Rest, ToldInSelect
    <2>8. \A c \in incoming : IsControl(c) => sess'[c.from].pc = sess[c.from].pc
      BY <1>9, <2>1 DEF Inv, TypeOK, Connection, Rest, Beginning
    <2>9. Rest'
      BY <1>1, <1>6, <2>2, <2>7, <2>8, RestWhenIdle
    <2> QED  BY <1>1, <2>1, <2>6, <2>9, IdleType DEF Inv, TypeOK
  <1> QED  BY <1>5, <1>8, <1>9

\* The client that was expected at the port is no longer.
LEMMA DispatchStep == ASSUME Inv, DispatchData PROVE Inv'
  <1> DEFINE b == board[Key]
             r == [sess[b] EXCEPT !.exec = IF sess[b].data_rx THEN "waiting" ELSE @,
                                  !.data_rx = FALSE,
                                  !.told = IF @ = proxy.msg.port THEN NoPort ELSE @]
  <1>1. /\ Key \in Keys /\ b # NoSession /\ proxy' = Idle /\ UNCHANGED incoming
        /\ board' = [board EXCEPT ![Key] = NoSession]
    BY DEF DispatchData
  <1>2. board \in [Keys -> Sessions \union {NoSession}] /\ b \in Sessions
    BY <1>1 DEF Inv, TypeOK
  <1>3. sess \in [Sessions -> SessionRecord] /\ sess[b] \in SessionRecord
    BY <1>2 DEF Inv, TypeOK
  <1>4. r \in SessionRecord /\ r.pc = sess[b].pc /\ r.source = sess[b].source
        /\ r.active = sess[b].active
        /\ r.told = IF sess[b].told = proxy.msg.port THEN NoPort ELSE sess[b].told
    BY <1>3 DEF SessionRecord
  <1>5. sess' = [sess EXCEPT ![b] = r]
    BY <1>2, <1>3 DEF DispatchData
  <1>6. proxy'.step = "begin" /\ proxy'.msg = NoMsg
    BY <1>1 DEF Idle
  <1>7. Key[2] = proxy.msg.port
    BY DEF Key
  <1> HIDE DEF r
  <1>8. sess' \in [Sessions -> SessionRecord] /\ sess'[b] = r
        /\ \A t \in Sessions : t # b => sess'[t] = sess[t]
    BY <1>2, <1>3, <1>4, <1>5
  <1>9. \A t \in Sessions : /\ sess'[t].source = sess[t].source /\ sess'[t].active = sess[t].active
                            /\ sess'[t].pc = sess[t].pc /\ sess'[t].told \in {sess[t].told, NoPort}
    BY <1>4, <1>8
  <1>10. /\ board' \in [Keys -> Sessions \union {NoSession}]
         /\ \A k \in Keys : board'[k] = IF k = Key THEN NoSession ELSE board[k]
    BY <1>1, <1>2
  <1>11. OnePortPerSession'
    BY <1>2, <1>9, <1>10 DEF Inv, Board, OnePortPerSession
  <1>12. PromiseKept'
    <2> SUFFICES ASSUME NEW t \in Sessions, sess'[t].told # NoPort, Alone(t)
                 PROVE  board'[<<sess[t].source, sess[t].told>>] = t /\ sess'[t].told = sess[t].told
      BY <1>9 DEF PromiseKept, Alone
    <2>1. sess'[t].told = sess[t].told /\ board[<<sess[t].source, sess[t].told>>] = t
      BY <1>9 DEF Inv, Board, PromiseKept
    <2>2. <<sess[t].source, sess[t].told>> \in Keys
      BY <2>1 DEF Inv, TypeOK, SessionRecord, Keys
    <2>3. <<sess[t].source, sess[t].told>> # Key
      BY <1>4, <1>7, <1>8, <2>1
    <2> QED  BY <1>10, <2>1, <2>2, <2>3
  <1>13. Board'
    BY <1>6, <1>11, <1>12 DEF Board, ScanComplete, Failed, Replying
  <1>14. Rest'
    <2>1. \A c \in incoming : c.from \in Sessions
      BY DEF Inv, TypeOK, Connection
    <2> QED  BY <1>1, <1>6, <1>9, <2>1, RestWhenIdle DEF Inv, Rest, ToldInSelect
  <1> QED  BY <1>1, <1>8, <1>10, <1>13, <1>14, IdleType DEF Inv, TypeOK

\* A free port is registered and the former one given back, or the scan has found
\* that there is none.
LEMMA ReserveStep == ASSUME Inv, Reserve PROVE Inv'
  <1> DEFINE s == S
             source == sess[s].source
             old == sess[s].active
  <1>1. proxy.msg.type = "assign" /\ UNCHANGED incoming
    BY DEF Reserve, Handling
  <1>2. s \in Sessions /\ sess[s].told = NoPort
    BY <1>1, AskingUntold
  <1>3. /\ board \in [Keys -> Sessions \union {NoSession}]
        /\ sess \in [Sessions -> SessionRecord] /\ sess[s] \in SessionRecord
        /\ source \in Sources /\ old \in Ports \union {NoPort}
    BY <1>2 DEF Inv, TypeOK, SessionRecord
  <1>4. PICK first \in 0..(Width - 1) :
          LET port == FirstFree(source, first)
          IN  /\ proxy' = [proxy EXCEPT !.step = "reply", !.port = port,
                                        !.first = IF port = NoPort THEN first ELSE 0]
              /\ IF port = NoPort
                 THEN UNCHANGED <<board, sess>>
                 ELSE /\ sess' = [sess EXCEPT ![s].active = port]
                      /\ board' = [k \in Keys |->
                           CASE k = <<source, port>> -> s
                             [] k # <<source, port>> /\ k = <<source, old>> -> NoSession
                             [] OTHER -> board[k]]
    BY Zenon DEF Reserve
  <1> DEFINE port == FirstFree(source, first)
  <1>5. \/ port \in Ports /\ board[<<source, port>>] = NoSession
        \/ /\ port = NoPort
           /\ \A i \in Rounds : board[<<source, Candidate(first, i)>>] # NoSession
    BY <1>3, FirstFreeIs
  <1>6. NoPort \notin Ports
    BY SwitchboardAssumption DEF Ports
  <1>7. /\ proxy' \in ProxyRecord /\ proxy'.msg = proxy.msg /\ proxy'.step = "reply"
        /\ proxy'.port = port /\ (port = NoPort => proxy'.first = first) /\ S' = s
    <2> HIDE DEF port
    <2>1. proxy \in ProxyRecord /\ port \in Ports \union {NoPort}
      BY <1>5 DEF Inv, TypeOK
    <2>2. 0 \in 0..(Width - 1)
      BY SwitchboardAssumption
    <2>3. proxy' = [proxy EXCEPT !.step = "reply", !.port = port,
                                 !.first = IF port = NoPort THEN first ELSE 0]
      BY <1>4 DEF port
    <2> QED  BY <2>1, <2>2, <2>3 DEF ProxyRecord, S
  <1>8. CASE port = NoPort
    <2>1. UNCHANGED <<board, sess, incoming>>
      BY <1>1, <1>4, <1>8
    <2>2. OnePortPerSession' /\ PromiseKept'
      BY <2>1 DEF Inv, Board, OnePortPerSession, PromiseKept, Alone
    <2>3. Replying'
      BY <1>1, <1>7, <1>8 DEF Replying
    <2>4. ScanComplete'
      <3> SUFFICES ASSUME first + range_size < Width, NEW p \in Ports
                   PROVE  board[<<source, p>>] # NoSession
        BY <1>7, <1>8, <2>1 DEF ScanComplete, Failed, Taken
      <3>1. PICK i \in Rounds : Candidate(first, i) = p
        BY ScanCovers
      <3> QED  BY <1>5, <1>6, <1>8, <3>1
    <2>5. Rest'
      BY <1>7, <2>1 DEF Inv, Rest, ToldInSelect, Asking, Beginning, Sourced, IsControl, S
    <2> QED  BY <1>7, <2>1, <2>2, <2>3, <2>4, <2>5 DEF Inv, TypeOK, Board
  <1>9. CASE port \in Ports /\ board[<<source, port>>] = NoSession
    <2> DEFINE r == [sess[s] EXCEPT !.active = port]
    <2>1. /\ sess' = [sess EXCEPT ![s].active = port]
          /\ board' = [k \in Keys |->
               CASE k = <<source, port>> -> s
                 [] k # <<source, port>> /\ k = <<source, old>> -> NoSession
                 [] OTHER -> board[k]]
      BY <1>4, <1>6, <1>9
    <2> HIDE DEF port
    <2>2. r \in SessionRecord /\ r.pc = sess[s].pc /\ r.source = source
          /\ r.active = port /\ r.told = sess[s].told
      BY <1>3, <1>9 DEF SessionRecord
    <2>3. sess' = [sess EXCEPT ![s] = r]
      BY <1>3, <2>1
    <2> HIDE DEF r
    <2>4. sess' \in [Sessions -> SessionRecord] /\ sess'[s] = r
          /\ \A t \in Sessions : t # s => sess'[t] = sess[t]
      BY <1>2, <1>3, <2>2, <2>3
    <2>5. \A t \in Sessions : /\ sess'[t].source = sess[t].source /\ sess'[t].pc = sess[t].pc
                              /\ sess'[t].told = sess[t].told
      BY <2>2, <2>4
    <2>6. <<source, port>> \in Keys
      BY <1>3, <1>9 DEF Keys
    <2>7. /\ board' \in [Keys -> Sessions \union {NoSession}]
          /\ board'[<<source, port>>] = s
          /\ \A k \in Keys : \/ k = <<source, port>>
                             \/ k = <<source, old>> /\ board'[k] = NoSession
                             \/ k # <<source, old>> /\ board'[k] = board[k]
      BY <1>2, <1>3, <2>1, <2>6
    <2>8. OnePortPerSession'
      <3> SUFFICES ASSUME NEW k \in Keys, board'[k] # NoSession
                   PROVE  k = <<sess'[board'[k]].source, sess'[board'[k]].active>>
        BY DEF OnePortPerSession
      <3>1. CASE k = <<source, port>>
        BY <3>1, <2>2, <2>4, <2>7
      <3>2. CASE k # <<source, port>>
        <4>1. board'[k] = board[k] /\ k # <<source, old>> /\ board[k] \in Sessions
          BY <3>2, <2>7, <1>3
        <4>2. k = <<sess[board[k]].source, sess[board[k]].active>>
          BY <4>1 DEF Inv, Board, OnePortPerSession
        <4>3. board[k] # s
          BY <4>1, <4>2
        <4> QED  BY <4>1, <4>2, <4>3, <2>4
      <3> QED  BY <3>1, <3>2
    <2>9. PromiseKept'
      <3> SUFFICES ASSUME NEW t \in Sessions, sess[t].told # NoPort, Alone(t)
                   PROVE  board'[<<sess[t].source, sess[t].told>>] = t
        BY <2>5 DEF PromiseKept, Alone
      <3>1. board[<<sess[t].source, sess[t].told>>] = t
        BY DEF Inv, Board, PromiseKept
      <3>2. <<sess[t].source, sess[t].told>> \in Keys
        BY DEF Inv, TypeOK, SessionRecord, Keys
      <3>3. source # sess[t].source
        BY <1>2 DEF Alone
      <3> QED  BY <2>7, <3>1, <3>2, <3>3
    <2>10. Replying' /\ ScanComplete'
      <3>1. sess'[s].source = source
        BY <1>2, <2>5
      <3> QED  BY <1>1, <1>6, <1>7, <1>9, <2>7, <3>1 DEF Replying, ScanComplete, Failed
    <2>11. Rest'
      <3>1. \A c \in incoming : c.from \in Sessions
        BY DEF Inv, TypeOK, Connection
      <3> QED  BY <1>1, <1>2, <1>7, <2>5, <3>1
               DEF Inv, Rest, ToldInSelect, Asking, Beginning, Sourced, IsControl, S
    <2> QED  BY <1>1, <1>7, <2>4, <2>7, <2>8, <2>9, <2>10, <2>11 DEF Inv, TypeOK, Board
  <1> QED  BY <1>5, <1>8, <1>9

\* Every step keeps the invariant.
LEMMA StepInv == Inv /\ [Next]_vars => Inv'
  <1> SUFFICES ASSUME Inv, [Next]_vars PROVE Inv'  OBVIOUS
  <1>1. CASE UNCHANGED vars
    BY <1>1 DEF vars, Inv, TypeOK, Rest, ToldInSelect, Asking, Beginning, Sourced, IsControl, S,
                Board, OnePortPerSession, PromiseKept, Alone, ScanComplete, Failed, Taken, Replying
  <1>2. ASSUME NEW s \in Sessions,
               Connect(s) \/ SessionStep(s) \/ SendAssign(s) \/ SendClose(s)
        PROVE  Inv'
    BY <1>2, ConnectStep, SessionSteps, SendSteps
  <1>3. ASSUME NEW c \in incoming, SendHeader(c) PROVE Inv'
    BY <1>3, HeaderSteps
  <1>4. CASE ProxyLoop
    BY <1>4, SpawnStep, RefuseStep, DispatchStep, ReserveStep, ReplyStep, CloseStep DEF ProxyLoop
  <1> QED  BY <1>1, <1>2, <1>3, <1>4 DEF Next, Sending, SessionStep

-----------------------------------------------------------------------------
(* The theorems.                                                           *)

\* Switchboard, sessions, connections and proxy loop keep their types.
THEOREM TypeCorrect == Spec => []TypeOK
  <1>1. Inv => TypeOK
    BY DEF Inv
  <1> QED  BY <1>1, InitInv, StepInv, PTL DEF Spec

\* Whatever sessions leave behind, none holds two ports, or one of another address.
THEOREM OnePort == Spec => []OnePortPerSession
  <1>1. Inv => OnePortPerSession
    BY DEF Inv, Board
  <1> QED  BY <1>1, InitInv, StepInv, PTL DEF Spec

\* A client that was told a port and shares its address with no other session is
\* expected there.
THEOREM Expected == Spec => []PromiseKept
  <1>1. Inv => PromiseKept
    BY DEF Inv, Board
  <1> QED  BY <1>1, InitInv, StepInv, PTL DEF Spec

\* reserve_next_free_port overlooks no free port unless its sum wraps around, for
\* every range and every width of the port type.
THEOREM NothingOverlooked == Spec => []ScanComplete
  <1>1. Inv => ScanComplete
    BY DEF Inv, Board
  <1> QED  BY <1>1, InitInv, StepInv, PTL DEF Spec
=============================================================================
