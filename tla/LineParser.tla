---------------------------- MODULE LineParser ----------------------------
(***************************************************************************)
(* line_parser::parse: what a line of the control channel means.  A byte   *)
(* is a string; a keyword, or a parameter that one of them knows, counts   *)
(* as a single byte of a line, because nothing looks inside it.            *)
(***************************************************************************)
EXTENDS Integers, Sequences, SequencesExt

CR == "cr"
LF == "lf"
NUL == "nul"
Space == "space"
BadUtf8 == "bad"          \* a byte that is not UTF-8
Replacement == "fffd"     \* what from_utf8_lossy makes of it
Option == "-l"            \* an option of LIST, which starts with a dash

Err(kind) == [cmd |-> "error", arg |-> <<kind>>]
Cmd(name, arg) == [cmd |-> name, arg |-> arg]
NoPath == <<"none">>

\* What the bytes of a word become in upper case.
Lower == [user |-> "USER", noop |-> "NOOP", tls |-> "TLS"]
to_uppercase(b) == IF b \in DOMAIN Lower THEN Lower[b] ELSE b

-----------------------------------------------------------------------------
(* How a keyword treats its parameter.                                     *)

Kind(k) == [kind |-> k, of |-> {}]
OneOf(S) == [kind |-> "one of", of |-> S]
Number == {"0", "42"}       \* what u64 parses

SessionWords ==
  [USER |-> Kind("bytes"), PASS |-> Kind("bytes"), ACCT |-> Kind("bytes"),
   SYST |-> Kind("ignored"), STAT |-> Kind("optional bytes"),
   TYPE |-> Kind("ignored"), STRU |-> OneOf({"F", "R", "P"}),
   MODE |-> OneOf({"S", "B", "C"}), HELP |-> Kind("ignored")]

TransferWords ==
  [NOOP |-> Kind("none"), PASV |-> Kind("none"), PORT |-> Kind("text"),
   RETR |-> Kind("text"), STOR |-> Kind("text"), LIST |-> Kind("options"),
   NLST |-> Kind("optional")]

DirectoryWords ==
  [FEAT |-> Kind("none"), PWD |-> Kind("none"), XPWD |-> Kind("none"),
   CWD |-> Kind("text"), XCWD |-> Kind("text"), CDUP |-> Kind("none"),
   OPTS |-> OneOf({"UTF8 ON", "utf8 on", "UTF8 OFF", "utf8 off"}),
   DELE |-> Kind("text"), RMD |-> Kind("text"),
   QUIT |-> Kind("none"), BYE |-> Kind("none")]

FileWords ==
  [MKD |-> Kind("text"), XMKD |-> Kind("text"), ALLO |-> Kind("ignored"),
   ABOR |-> Kind("none"), STOU |-> Kind("none"),
   RNFR |-> Kind("text"), RNTO |-> Kind("text")]

ProtectionWords ==
  [AUTH |-> Kind("protocol"), PBSZ |-> OneOf({"0"}),
   PROT |-> OneOf({"C", "S", "E", "P"}), CCC |-> Kind("none")]

MetadataWords ==
  [SIZE |-> Kind("text"), REST |-> OneOf(Number), MDTM |-> Kind("text")]

Words == SessionWords @@ TransferWords @@ DirectoryWords @@ FileWords
           @@ ProtectionWords @@ MetadataWords

\* Two names of one Command.
Alias == [XPWD |-> "PWD", XCWD |-> "CWD", XMKD |-> "MKD", BYE |-> "QUIT"]
Name(word) == IF word \in DOMAIN Alias THEN Alias[word] ELSE word

-----------------------------------------------------------------------------
(* The helpers of parse.                                                   *)

First(S) == CHOOSE i \in S : \A j \in S : i <= j

split_token_params(line) ==
  LET at == {i \in DOMAIN line : line[i] \in {Space, CR, LF}}
  IN  IF at = {} THEN [token |-> line, params |-> <<>>]
      ELSE [token |-> SubSeq(line, 1, First(at) - 1),
            params |-> SubSeq(line, First(at) + 1, Len(line))]

from_utf8_lossy(p) == [i \in DOMAIN p |-> IF p[i] = BadUtf8 THEN Replacement ELSE p[i]]

normalize(token) == [i \in DOMAIN token |-> to_uppercase(token[i])]

\* The NUL of a CR NUL, which stands for a CR that does not end the line.
Padding(line, i) == line[i - 1] = CR /\ line[i] = NUL

\* Mutant of Kept: the NUL after a CR stays.
KeptPadded(line, last) == SubSeq(line, 1, last)

Kept(line, last) ==
  LET stays(i) == i = 1 \/ ~Padding(line, i)
      at == SelectSeq([i \in 1..last |-> i], stays)
  IN  [n \in DOMAIN at |-> line[at[n]]]

\* A line of three bytes or more is read up to the first byte that a LF follows,
\* or that is a CR on its own.  The first byte is taken as it is.
ScanLine(line) ==
  LET ends == {i \in 2..(Len(line) - 1) :
                 ~Padding(line, i) /\ (line[i + 1] = LF \/ (line[i] = CR /\ line[i + 1] # NUL))}
      end == First(ends)
  IN  IF ends = {} \/ line[end + 1] # LF THEN Err("InvalidEol")
      ELSE Cmd("params", Kept(line, IF line[end] = CR THEN end - 1 ELSE end))

parse_to_eol(line) ==
  CASE line = <<>> \/ line[1] = LF -> Cmd("params", <<>>)
    [] line = <<CR, LF>>           -> Cmd("params", <<>>)
    [] OTHER                       ->
         IF Len(line) > 2 THEN ScanLine(line)
         ELSE IF Len(line) = 2 /\ line[2] = LF THEN Cmd("params", <<line[1]>>)
         ELSE Err("InvalidEol")

\* The first of the words that spaces separate that is not an option.
ListPath(p) ==
  LET starts == {1} \union {i + 1 : i \in {j \in DOMAIN p : p[j] = Space}}
      paths  == {i \in starts : ~(i \in DOMAIN p /\ p[i] = Option)}
      ends   == {j \in First(paths)..Len(p) : p[j] = Space} \union {Len(p) + 1}
  IN  IF p = <<>> \/ paths = {} THEN NoPath
      ELSE from_utf8_lossy(SubSeq(p, First(paths), First(ends) - 1))

\* Only the parameter of AUTH must be UTF-8, if it is at most three bytes long.
ParseProtocol(p) ==
  LET names == {"TLS", "SSL"}
      upper == normalize(p)
      long  == Len(p) > 3 \/ (Len(p) > 1 /\ ToSet(upper) \intersect names # {})
  IN  IF long THEN Err("InvalidCommand")
      ELSE IF BadUtf8 \in ToSet(p) THEN Err("InvalidUtf8")
      ELSE IF Len(p) = 1 /\ upper[1] \in names THEN Cmd("AUTH", upper)
      ELSE Err("InvalidCommand")

\* The command that a known keyword and its parameter make.
Interpret(word, p) ==
  LET rule == Words[word]
      given(arg) == IF p = <<>> THEN Err("InvalidCommand") ELSE Cmd(Name(word), arg)
  IN  CASE rule.kind = "bytes"          -> Cmd(word, p)
        [] rule.kind = "optional bytes" -> Cmd(word, IF p = <<>> THEN NoPath ELSE p)
        [] rule.kind = "optional"       -> Cmd(word, IF p = <<>> THEN NoPath ELSE from_utf8_lossy(p))
        [] rule.kind = "ignored"        -> Cmd(word, <<>>)
        [] rule.kind = "options"        -> Cmd(word, ListPath(p))
        [] rule.kind = "text"           -> given(from_utf8_lossy(p))
        [] rule.kind = "none"           -> IF p = <<>> THEN Cmd(Name(word), <<>>) ELSE Err("InvalidCommand")
        [] rule.kind = "protocol"       -> ParseProtocol(p)
        [] rule.kind = "one of"         -> IF Len(p) = 1 /\ p[1] \in rule.of THEN Cmd(word, p)
                                           ELSE Err("InvalidCommand")

Other(token, params) ==
  LET p == parse_to_eol(params)
  IN  IF p.cmd = "error" THEN p
      ELSE Cmd("Other", normalize(token) \o <<Space>> \o from_utf8_lossy(p.arg))

\* SITE splits its parameters once more.
ParseSite(line) ==
  LET s == split_token_params(line)
      p == parse_to_eol(s.params)
  IN  IF BadUtf8 \in ToSet(s.token) THEN Err("InvalidUtf8")
      ELSE IF normalize(s.token) # <<"MD5">> THEN Other(s.token, s.params)
      ELSE IF p.cmd = "error" THEN p
      ELSE IF p.arg = <<>> THEN Err("InvalidCommand")
      ELSE Cmd("MD5", from_utf8_lossy(p.arg))

parse(line) ==
  LET s    == split_token_params(line)
      word == IF Len(s.token) = 1 THEN to_uppercase(s.token[1]) ELSE ""
      p    == parse_to_eol(s.params)
  IN  IF BadUtf8 \in ToSet(s.token) THEN Err("InvalidUtf8")
      ELSE IF word = "SITE" THEN ParseSite(s.params)
      ELSE IF word \notin DOMAIN Words THEN Other(s.token, s.params)
      ELSE IF p.cmd = "error" /\ Words[word].kind # "ignored" THEN p
      ELSE Interpret(word, p.arg)
=============================================================================
