--------------------------- MODULE CloudStorage ---------------------------
(***************************************************************************)
(* The storage back-end for Google Cloud Storage.  A bucket is a flat set  *)
(* of objects: a directory exists because of an object whose name ends in  *)
(* a slash, its marker, or only because objects have its name as a prefix. *)
(* An operation is one or more HTTP requests; what other sessions do, and  *)
(* what other programs have put into the bucket, shows between them.       *)
(***************************************************************************)
EXTENDS Integers, Sequences, SequencesExt, FiniteSets, Bags

CONSTANTS
  Sessions,
  Paths,         \* the paths that clients name, without their leading slash
  BucketRoot,    \* the root inside the bucket
  Uses,          \* the commands that each session uses
  NoEntry        \* no page token

VARIABLES
  objects,   \* the names of the objects in the bucket
  ops        \* the operation each session has under way

vars == <<objects, ops>>

-----------------------------------------------------------------------------
(* Names.                                                                  *)

Commands == {"PUT", "MKD", "DELE", "RMD", "LIST", "CWD", "GET"}

\* The name of an object or of a prefix: its components, and whether it ends in a slash.
Name == [path : Seq(Nat), slash : BOOLEAN]
Entry == [key : Name, kind : {"item", "prefix"}]

\* Path components are numbers, which gives them their order.
ASSUME CloudAssumption ==
  /\ Paths \subseteq Seq(Nat) /\ <<>> \in Paths
  /\ BucketRoot \in Seq(Nat)
  /\ Uses \in [Sessions -> SUBSET Commands]
  /\ NoEntry \notin Entry

real_path(path) == BucketRoot \o path

\* path_str with TrailingSlash::Trim or AsIs, and with TrailingSlash::Ensure.
File(path) == [path |-> real_path(path), slash |-> FALSE]
Marker(path) == [path |-> real_path(path), slash |-> TRUE]

\* Bound: the names in the bucket are those that clients name.  Without a root inside
\* the bucket the client's root has no name there.
Nameable == {p \in Paths : real_path(p) # <<>>}
Keys == UNION {{File(p), Marker(p)} : p \in Nameable}

\* The order of names in the bucket; an object before the prefix of its name.
Less(p, q) ==
  \E i \in 1..Len(q) :
    /\ i <= Len(p) + 1 /\ \A j \in 1..(i - 1) : p[j] = q[j]
    /\ i = Len(p) + 1 \/ p[i] < q[i]
Before(e, f) ==
  \/ Less(e.key.path, f.key.path)
  \/ e.key.path = f.key.path /\ ~e.key.slash /\ f.key.slash
  \/ e.key = f.key /\ e.kind = "item" /\ f.kind = "prefix"

-----------------------------------------------------------------------------
(* objects.list of the service, with delimiter=/ and                       *)
(* includeTrailingDelimiter=true.                                          *)

\* Objects whose name starts with a prefix that is a directory of the bucket.
Under(bucket, prefix) ==
  {k \in bucket : /\ IsPrefix(prefix, k.path)
                  /\ k.path # prefix \/ k.slash \/ prefix = <<>>}

\* An object directly in the directory is an item, and what contains a further
\* slash is rolled up to a prefix.
EntriesOf(k, prefix) ==
  LET depth == Len(k.path) - Len(prefix)
      rolled == [path |-> SubSeq(k.path, 1, Len(prefix) + 1), slash |-> TRUE]
  IN  (IF depth <= 1 THEN {[key |-> k, kind |-> "item"]} ELSE {})
      \union (IF depth > 1 \/ (depth = 1 /\ k.slash)
              THEN {[key |-> rolled, kind |-> "prefix"]} ELSE {})

Entries(bucket, prefix) == UNION {EntriesOf(k, prefix) : k \in Under(bucket, prefix)}

\* A page: the first entries after the last of the page before, up to some entry,
\* which is the page token unless there are no others.
Rest(bucket, prefix, after) ==
  {e \in Entries(bucket, prefix) : after = NoEntry \/ Before(after, e)}
Page(rest, last) ==
  LET entries == {e \in rest : e = last \/ Before(e, last)}
  IN  [entries |-> entries, next |-> IF entries = rest THEN NoEntry ELSE last]
Pages(bucket, prefix, after) ==
  LET rest == Rest(bucket, prefix, after)
  IN  IF rest = {} THEN {[entries |-> {}, next |-> NoEntry]}
      ELSE {Page(rest, last) : last \in rest}

-----------------------------------------------------------------------------
(* ResponseBody.                                                           *)

KeysOf(page, kind) == {e.key : e \in {f \in page.entries : f.kind = kind}}

dir_exists(page) == page.entries # {}

\* Mutant of dir_empty: that there is more than the page is overlooked.
dir_empty_first_page(page) ==
  /\ KeysOf(page, "prefix") = {}
  /\ \E k \in KeysOf(page, "item") : KeysOf(page, "item") = {k} /\ k.slash

dir_empty(page) ==
  /\ page.next = NoEntry
  /\ KeysOf(page, "prefix") = {}
  /\ \E k \in KeysOf(page, "item") : KeysOf(page, "item") = {k} /\ k.slash

\* Mutant of list: directories without a marker are not listed.
list_items(page) ==
  SetToBag({k \in KeysOf(page, "item") : k.slash => k \in KeysOf(page, "prefix")})

\* Prefixes without an object, then the items but for the directory itself.
list(page) ==
  LET prefixes == KeysOf(page, "prefix")
      items == KeysOf(page, "item")
  IN  SetToBag(prefixes \ items) (+) SetToBag({k \in items : k.slash => k \in prefixes})

-----------------------------------------------------------------------------
(* The state.                                                              *)

\* The files and directories in a directory.
Children(bucket, path) ==
  LET dir == real_path(path)
      depth(k) == Len(k.path) - Len(dir)
  IN  {k \in Under(bucket, dir) : depth(k) = 1 /\ ~k.slash}
      \union {[path |-> SubSeq(k.path, 1, Len(dir) + 1), slash |-> TRUE] :
              k \in {j \in Under(bucket, dir) : depth(j) > 1 \/ (depth(j) = 1 /\ j.slash)}}

\* An operation under way has a command and a path, the step of RMD it is at, the last
\* entry of the listing so far and the listing, a bag of names.  Its result is kept if it
\* tells of a directory: others, and errors, just end it.  History, for the properties:
\* stable says that nobody else has changed the bucket since it began; always and ever
\* are the names that were in a directory to list all the time and at some time.
Idle == [pc |-> "idle"]

Relevant(command, path, bucket) == IF command = "LIST" THEN Children(bucket, path) ELSE {}

Begin(command, path) ==
  [command |-> command, path |-> path, pc |-> "request", step |-> 1, after |-> NoEntry,
   dirlist |-> EmptyBag, result |-> "", stable |-> TRUE,
   always |-> Relevant(command, path, objects), ever |-> Relevant(command, path, objects)]

Disturbed(op, bucket) ==
  [op EXCEPT !.stable = FALSE,
             !.always = @ \intersect Relevant(op.command, op.path, bucket),
             !.ever = @ \union Relevant(op.command, op.path, bucket)]

Init ==
  /\ objects \in SUBSET Keys
  /\ ops = [s \in Sessions |-> Idle]

-----------------------------------------------------------------------------
(* Operations.                                                             *)

Set(s, op) == ops' = [ops EXCEPT ![s] = op]

\* cwd to the root asks nothing.
Start(s, command, path) ==
  /\ ops[s] = Idle
  /\ command \in {"PUT", "MKD", "DELE", "GET"} => path \in Nameable
  /\ command = "CWD" => path # <<>>
  /\ Set(s, Begin(command, path))
  /\ UNCHANGED objects

Finish(s) ==
  /\ ops[s].pc = "done"
  /\ Set(s, Idle)
  /\ UNCHANGED objects

Requesting(s, command) == ops[s].pc = "request" /\ ops[s].command = command

\* http_raw: there is no token, the connection fails, or the service answers with an error.
HttpError(s) ==
  /\ ops[s].pc = "request"
  /\ Set(s, Idle)
  /\ UNCHANGED objects

\* The bucket changes under the operations of the other sessions.
Change(s, new, op) ==
  /\ objects' = new
  /\ ops' = [t \in Sessions |->
       CASE t = s -> op
         [] t # s /\ ops[t] # Idle /\ new # objects -> Disturbed(ops[t], new)
         [] OTHER -> ops[t]]

Done(s, result) == [ops[s] EXCEPT !.pc = "done", !.result = result]

Upload(s) ==
  /\ Requesting(s, "PUT")
  /\ Change(s, objects \union {File(ops[s].path)}, Idle)

Mkd(s) ==
  /\ Requesting(s, "MKD")
  /\ Change(s, objects \union {Marker(ops[s].path)}, Idle)

Delete(s) ==
  /\ Requesting(s, "DELE")
  /\ Change(s, objects \ {File(ops[s].path)}, Idle)

\* item and get, for the size, the time, the hash or the content of a file.
Item(s) ==
  /\ Requesting(s, "GET")
  /\ Change(s, objects, Idle)

\* gcs.dir_empty: two entries tell; the root of the client asks for the whole bucket.
DirEmptyPages(path) ==
  {page \in Pages(objects, IF path = <<>> THEN <<>> ELSE real_path(path), NoEntry) :
     Cardinality(page.entries) <= 2}

Cwd(s) ==
  /\ Requesting(s, "CWD")
  /\ \E page \in DirEmptyPages(ops[s].path) :
       Change(s, objects, Done(s, IF dir_exists(page) THEN "ok"
                                  ELSE "PermanentDirectoryNotAvailable"))

\* Mutant of Rmd: the name is taken without its trailing slash.
RmdTrims(s) ==
  /\ Requesting(s, "RMD")
  /\ \E page \in DirEmptyPages(ops[s].path) :
       /\ dir_empty(page)
       /\ Change(s, objects \ {File(ops[s].path)}, Done(s, "ok"))

\* Two requests: is the directory there and empty, and the removal of its marker,
\* which is an error if somebody else has removed it.
Rmd(s) ==
  /\ Requesting(s, "RMD")
  /\ \/ /\ ops[s].step = 1
        /\ \E page \in DirEmptyPages(ops[s].path) :
             CASE ~dir_exists(page) -> Change(s, objects, Done(s, "PermanentDirectoryNotAvailable"))
               [] dir_exists(page) /\ ~dir_empty(page) ->
                    Change(s, objects, Done(s, "PermanentDirectoryNotEmpty"))
               [] OTHER -> /\ Set(s, [ops[s] EXCEPT !.step = 2]) /\ UNCHANGED objects
     \/ /\ ops[s].step = 2
        /\ Change(s, objects \ {Marker(ops[s].path)},
                  IF Marker(ops[s].path) \in objects THEN Done(s, "ok") ELSE Idle)

\* The entries of a page are added to the listing, which the last page ends.
Listed(s, page) ==
  [ops[s] EXCEPT !.dirlist = @ (+) list(page), !.after = page.next,
                 !.pc = IF page.next = NoEntry THEN "done" ELSE "request",
                 !.result = IF page.next = NoEntry THEN "ok" ELSE ""]

\* Mutant of List: every request asks for the first page.
ListFirstPage(s) ==
  /\ Requesting(s, "LIST")
  /\ \E page \in Pages(objects, real_path(ops[s].path), NoEntry) : Set(s, Listed(s, page))
  /\ UNCHANGED objects

\* Page by page, as the service cuts them.
List(s) ==
  /\ Requesting(s, "LIST")
  /\ \E page \in Pages(objects, real_path(ops[s].path), ops[s].after) : Set(s, Listed(s, page))
  /\ UNCHANGED objects

-----------------------------------------------------------------------------
Request(s) ==
  \/ HttpError(s) \/ Upload(s) \/ Mkd(s) \/ Delete(s) \/ Item(s)
  \/ Cwd(s) \/ Rmd(s) \/ List(s)

Next ==
  \E s \in Sessions :
    \/ \E command \in Uses[s], path \in Paths : Start(s, command, path)
    \/ Request(s) \/ Finish(s)

Spec == Init /\ [][Next]_vars

-----------------------------------------------------------------------------
Answered(s, command) ==
  ops[s] # Idle /\ ops[s].pc = "done" /\ ops[s].command = command /\ ops[s].stable

(***************************************************************************)
(* A listing of a directory that nobody changed meanwhile shows each of    *)
(* its files and directories once, with or without markers and however the *)
(* service cuts it into pages, and not the directory itself.               *)
(***************************************************************************)
ListExact ==
  \A s \in Sessions : Answered(s, "LIST") /\ ops[s].result = "ok" =>
    ops[s].dirlist = SetToBag(Children(objects, ops[s].path))

(***************************************************************************)
(* A listing that others interfere with, between its pages, still shows    *)
(* every file and directory that was there all the time, none that was     *)
(* there at no time, and none twice.                                       *)
(***************************************************************************)
ListFaithful ==
  \A s \in Sessions : ops[s] # Idle /\ ops[s].pc = "done" /\ ops[s].command = "LIST" =>
    LET shown == BagToSet(ops[s].dirlist)
    IN  /\ ops[s].always \subseteq shown /\ shown \subseteq ops[s].ever
        /\ \A name \in shown : ops[s].dirlist[name] = 1

(***************************************************************************)
(* What RMD and CWD say of a directory below the root that nobody else     *)
(* changed: RMD succeeds only if it is gone afterwards and says "not       *)
(* empty" only if something other than its marker is there; both say "not  *)
(* available" only if nothing is, and CWD enters it only if something is.  *)
(***************************************************************************)
DirectoryKnown ==
  \A s \in Sessions : (Answered(s, "RMD") \/ Answered(s, "CWD")) /\ ops[s].path # <<>> =>
    LET left == Under(objects, real_path(ops[s].path))
    IN  CASE ops[s].result = "ok" -> (left = {}) <=> (ops[s].command = "RMD")
          [] ops[s].result = "PermanentDirectoryNotEmpty" -> left \ {Marker(ops[s].path)} # {}
          [] ops[s].result = "PermanentDirectoryNotAvailable" -> left = {}

(***************************************************************************)
(* A file is never removed but by a DELE of it, also when RMD looks at the *)
(* directory before another session uploads into it.                       *)
(***************************************************************************)
OnlyDeleteRemovesFiles ==
  [][\A k \in objects \ objects' : ~k.slash =>
       \E s \in Sessions : Requesting(s, "DELE") /\ k = File(ops[s].path)]_vars
=============================================================================
