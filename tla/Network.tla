-------------------------------- MODULE Network --------------------------------
(***************************************************************************)
(* The network client (src/src/network.rs, with the URL rules of           *)
(* url_guard.rs and the cancellable calls of cancel.rs).  A call asks for  *)
(* a document, for a file's size or for a file, over HTTPS or FTP.  It     *)
(* runs on a helper thread that outlives a cancelled caller.  The HTTPS    *)
(* calls share a cache of clients, each pinned to the addresses its host   *)
(* had when it was built, behind one lock that is held while a name        *)
(* resolves.  The file a download writes is modelled in UpdateApply.       *)
(***************************************************************************)
EXTENDS Integers, FiniteSets, Sequences, SequencesExt

CONSTANTS
  Calls,         \* the calls made
  Asked,         \* what each call may ask for
  Targets,       \* the URLs a server may redirect to
  Names,         \* public host names
  Size,          \* the size of the file each host has
  MaxRedirects,  \* MAX_REDIRECTS: the URLs a request may have tried
  CacheBound,    \* clients kept before the cache is cleared: 64 in the code
  Fresh,         \* ticks a cached client keeps its addresses: 60 s in the code
  BodyBound,     \* the largest body taken: MAX_JSON_BODY_BYTES, or the caller's
  LineBound,     \* lines of an FTP reply: 256 in the code
  MaxWorld       \* bound: ticks and changes of an address

Hosts == Names \cup {"lan"}   \* "lan" is a local address written out
Free == "free"                \* nobody holds the lock
Url == [scheme : {"https", "http", "ftp"}, host : Hosts]

ASSUME NetworkAssumption ==
  /\ Targets \subseteq Url
  /\ Asked \in [Calls -> SUBSET [op : {"get", "size", "file"}, url : Url, local : BOOLEAN]]
  /\ Size \in [Hosts -> Nat \ {0}]
  /\ {CacheBound, Fresh, BodyBound, LineBound, MaxWorld} \subseteq Nat
  /\ MaxRedirects \in Nat \ {0} /\ Free \notin Calls

VARIABLES
  call,    \* each call: what is asked, where its helper is, what its caller got
  cancel,  \* the calls that were cancelled
  cache,   \* clients by <<host, opt-in>>: their addresses and their age
  lock,    \* the call that holds the cache's lock
  dns,     \* what each host's name resolves to now
  world    \* counter of the bound

networkVars == <<call, cancel, cache, lock, dns, world>>

Addresses == {"near", "local", "hangs"}
Hangs == {"hangs"}            \* the resolver does not answer

Failed == [ok |-> FALSE]
Sized(size) == [ok |-> TRUE, size |-> size]   \* -1: not known
Body(size) == [ok |-> TRUE, size |-> size]
Nothing == [ok |-> FALSE, none |-> TRUE]

NoUrl == [scheme |-> "none", host |-> "none"]
NoCall == [op |-> "none", url |-> NoUrl, start |-> "none",
           local |-> FALSE, at |-> "none", wait |-> "none", pins |-> {}, tried |-> 0,
           lines |-> <<>>, paired |-> TRUE, got |-> Nothing]

NetworkInit ==
  /\ call = [i \in Calls |-> NoCall] /\ cancel = {}
  /\ cache = [key \in {} |-> NoCall] /\ lock = Free
  /\ dns = [host \in Hosts |-> IF host = "lan" THEN {"local"} ELSE {"near", "local"}]
  /\ world = 0

At(i, place) == call[i].at = place
\* What was asked is kept with a result, for the properties.
Ended(i, got) ==
  [(IF got.ok THEN [NoCall EXCEPT !.op = call[i].op, !.url = call[i].url] ELSE NoCall)
     EXCEPT !.at = "end", !.got = got, !.wait = call[i].wait, !.paired = call[i].paired]
Ends(i, got) == call' = [call EXCEPT ![i] = Ended(i, got)]
Goes(i, place) == call' = [call EXCEPT ![i].at = place]
Host(i) == call[i].url.host

-----------------------------------------------------------------------------
(* The caller. *)

(* `validate`: plain http never, a local address only with the opt-in.     *)
Valid(url, local) == url.scheme # "http" /\ (url.host = "lan" => local)

(* `get` leaves FTP to the FTP source.                                     *)
Accepted(op, url, local) == Valid(url, local) /\ ~(op = "get" /\ url.scheme = "ftp")

Start(i) ==
  /\ At(i, "none") /\ i \notin cancel
  /\ \E asked \in Asked[i] :
       LET accepted == Accepted(asked.op, asked.url, asked.local)
       IN  call' = [call EXCEPT ![i] =
             IF ~accepted THEN [NoCall EXCEPT !.at = "end", !.wait = "waits", !.got = Failed]
             ELSE [NoCall EXCEPT
               !.op = asked.op, !.url = asked.url, !.start = asked.url.host,
               !.local = asked.local, !.wait = "waits",
               !.at = IF asked.url.scheme = "ftp" THEN "greeting" ELSE "client"]]
  /\ UNCHANGED <<cancel, cache, lock, dns, world>>

(* A call made after the cancel starts no helper.                          *)
StartCancelled(i) ==
  /\ At(i, "none") /\ i \in cancel
  /\ call' = [call EXCEPT ![i].at = "end", ![i].wait = "cancelled"]
  /\ UNCHANGED <<cancel, cache, lock, dns, world>>

CancelCall(i) ==
  /\ i \notin cancel /\ call[i].wait \in {"none", "waits"}
  /\ cancel' = cancel \cup {i}
  /\ UNCHANGED <<call, cache, lock, dns, world>>

(* `run_unless_cancelled`: the caller takes the result, or leaves at the   *)
(* next poll once cancelled; the helper goes on by itself.                 *)
Returns(i) ==
  /\ call[i].wait = "waits"
  /\ \/ At(i, "end") /\ call' = [call EXCEPT ![i].wait = "done"]
     \/ ~At(i, "end") /\ i \in cancel /\ call' = [call EXCEPT ![i].wait = "cancelled"]
  /\ UNCHANGED <<cancel, cache, lock, dns, world>>

-----------------------------------------------------------------------------
(* Names and clients. *)

(* `pinned_addrs`: without the opt-in the local addresses are left out.    *)
Pinned(host, local) ==
  IF local THEN dns[host] ELSE dns[host] \ {"local"}

Answers(host) == dns[host] # Hangs

(* Mutant: a client is kept for its host, whoever may use it.              *)
KeyOfHost(i) == <<Host(i), FALSE>>

Key(i) == <<Host(i), call[i].local>>

TakesClient(i) ==
  /\ At(i, "client") /\ lock = Free
  /\ Key(i) \in DOMAIN cache /\ cache[Key(i)].age < Fresh
  /\ call' = [call EXCEPT ![i].at = "send", ![i].pins = cache[Key(i)].pins, ![i].tried = 1]
  /\ UNCHANGED <<cancel, cache, lock, dns, world>>

Locks(i) ==
  /\ At(i, "client") /\ lock = Free
  /\ Key(i) \in DOMAIN cache => cache[Key(i)].age >= Fresh
  /\ lock' = i /\ Goes(i, "resolve")
  /\ UNCHANGED <<cancel, cache, dns, world>>

(* The whole cache goes when it has grown past the bound.                  *)
Kept(clients) == IF Cardinality(DOMAIN clients) > CacheBound THEN [key \in {} |-> NoCall] ELSE clients

(* The client is built, and cached, while the lock is held.                *)
Resolves(i) ==
  /\ At(i, "resolve") /\ Answers(Host(i)) /\ lock' = Free
  /\ LET pins == Pinned(Host(i), call[i].local)
         kept == Kept(cache)
     IN  IF pins = {}
         THEN Ends(i, Failed) /\ UNCHANGED cache
         ELSE /\ call' = [call EXCEPT ![i].at = "send", ![i].pins = pins, ![i].tried = 1]
              /\ cache' = [key \in DOMAIN kept \cup {Key(i)} |->
                             IF key = Key(i) THEN [pins |-> pins, age |-> 0] ELSE kept[key]]
  /\ UNCHANGED <<cancel, dns, world>>

-----------------------------------------------------------------------------
(* An HTTPS request. *)

(* Mutant: a redirect may leave HTTPS.                                     *)
MayFollowDown(from, to) == to.scheme \in {"https", "http"} /\ to.host # "lan"

(* `check_redirect` of one hop.                                            *)
MayFollow(from, to) ==
  to.scheme \in {"https", "http"} /\ ~(from.scheme = "https" /\ to.scheme = "http") /\ to.host # "lan"

(* Mutant: a chain of redirects has no end.                                *)
FollowsFor(i, to) == MayFollow(call[i].url, to) /\ Pinned(to.host, call[i].local) # {}

(* `redirect_policy`: the number of URLs tried, the rule of a hop, and the *)
(* addresses of its host, which are looked up: the client's pins cover the *)
(* host it was built for alone.                                            *)
Follows(i, to) ==
  /\ call[i].tried < MaxRedirects
  /\ MayFollow(call[i].url, to) /\ Pinned(to.host, call[i].local) # {}

Redirects(i) ==
  /\ call[i].at \in {"send", "ranged"}
  /\ \E to \in Targets :
       /\ Answers(to.host)
       /\ IF Follows(i, to)
          THEN call' = [call EXCEPT ![i].url = to, ![i].pins = {},
                          ![i].tried = IF call[i].tried < MaxRedirects THEN @ + 1 ELSE @]
          ELSE Ends(i, Failed)
  /\ UNCHANGED <<cancel, cache, lock, dns, world>>

(* Nothing is reached, the server is silent too long, or its status is     *)
(* neither a success nor a refusal of HEAD.                                *)
RequestFails(i) ==
  /\ call[i].at \in {"send", "ranged"} /\ Ends(i, Failed)
  /\ UNCHANGED <<cancel, cache, lock, dns, world>>

(* Mutant: the length of a part is taken for the file's.                   *)
ProbeSizeOfPart(answer) == IF answer.total # -1 THEN answer.total ELSE answer.length

(* `probe_size` of the answer to a request for the first byte: the total   *)
(* of its range, else the length of a full answer.                         *)
ProbeSize(answer) ==
  IF answer.total # -1 THEN answer.total ELSE IF answer.part THEN -1 ELSE answer.length

\* What a server may say of a file to the request for its first byte.
RangedAnswers(size) ==
  [part : {TRUE}, total : {-1, size}, length : {-1, 1}]
  \cup [part : {FALSE}, total : {-1}, length : {-1, size}]

(* A success of HEAD gives the length, when the server says it.            *)
HeadAnswers(i) ==
  /\ At(i, "send") /\ call[i].op = "size"
  /\ \/ \E length \in {-1, Size[Host(i)]} : Ends(i, Sized(length))
     \/ \* `head_refused`: the URL first asked for is asked again
        call' = [call EXCEPT ![i].at = "ranged", ![i].url.host = call[i].start,
                             ![i].url.scheme = "https", ![i].tried = 1]
  /\ UNCHANGED <<cancel, cache, lock, dns, world>>

RangedAnswer(i) ==
  /\ At(i, "ranged")
  /\ \E answer \in RangedAnswers(Size[Host(i)]) : Ends(i, Sized(ProbeSize(answer)))
  /\ UNCHANGED <<cancel, cache, lock, dns, world>>

(* `read_bounded`.                                                         *)
ReadBounded(size) == IF size > BodyBound THEN Failed ELSE Body(size)

(* A connection lost within a body is a failed read.                       *)
BodyAnswers(i) ==
  /\ At(i, "send") /\ call[i].op # "size" /\ Ends(i, ReadBounded(Size[Host(i)]))
  /\ UNCHANGED <<cancel, cache, lock, dns, world>>

-----------------------------------------------------------------------------
(* An FTP dialogue. *)

\* A line of the control connection: the command it answers, its code, and
\* whether lines of the same reply follow it.
ReplyLine(command, code, more) == [to |-> command, code |-> code, more |-> more]

\* The replies of a server: of one line, of two, and one that goes on.
Replies(command, code) ==
  {<<ReplyLine(command, code, FALSE)>>,
   <<ReplyLine(command, code, TRUE), ReplyLine(command, code, FALSE)>>,
   [k \in 1..(LineBound + 2) |-> ReplyLine(command, code, TRUE)]}

\* What a server may answer to each step of the dialogue.
Codes ==
  [greeting |-> {220, 421}, user |-> {331, 230, 530}, pass |-> {230, 530}, type |-> {200, 500},
   size |-> {213, 502}, pasv |-> {227, 425}, retr |-> {150, 550}]

FtpPlaces == DOMAIN Codes

(* Mutant: a reply is one line.                                            *)
ReplyEndOfLine(lines) == 1

(* `read_reply`: the line that ends the first reply, 0 if there is none    *)
(* within the bound.                                                       *)
ReplyEnd(lines) ==
  LET ends == {k \in 2..Len(lines) : lines[k].code = lines[1].code /\ ~lines[k].more}
      first == CHOOSE k \in ends : \A j \in ends : k <= j
  IN  IF ~lines[1].more THEN 1
      ELSE IF ends # {} /\ first <= LineBound + 1 THEN first ELSE 0

(* Where the dialogue goes with a code: `connect`, `login`, then the steps *)
(* of `ftp_size` or `ftp_download`.                                        *)
Onward(i, code) ==
  LET positive == code \div 100 = 2
  IN  CASE At(i, "greeting") /\ positive -> "user"
        [] At(i, "user") /\ code \div 10 = 33 -> "pass"
        [] At(i, "user") /\ positive -> "type"
        [] At(i, "pass") /\ positive -> "type"
        [] At(i, "type") /\ positive -> IF call[i].op = "size" THEN "size" ELSE "pasv"
        [] At(i, "pasv") /\ code = 227 -> "retr"
        [] At(i, "retr") /\ code = 150 -> "data"
        [] OTHER -> "end"

(* A server that does not tell the size answers the SIZE command with an   *)
(* error, and the size is unknown; any other refusal ends the call.        *)
FtpGot(i, code) ==
  IF ~At(i, "size") THEN Failed
  ELSE IF code = 213 THEN Sized(Size[Host(i)]) ELSE Sized(-1)

(* One command and its reply.  The connection is made with the greeting,   *)
(* once the name has an address the call may use.                          *)
FtpStep(i) ==
  /\ call[i].at \in FtpPlaces
  /\ At(i, "greeting") => Answers(Host(i)) /\ Pinned(Host(i), call[i].local) # {}
  /\ \E code \in Codes[call[i].at] : \E reply \in Replies(call[i].at, code) :
       LET lines == call[i].lines \o reply
           last == ReplyEnd(lines)
           read == lines[IF last = 0 THEN 1 ELSE last]
           onward == IF last = 0 THEN "end" ELSE Onward(i, read.code)
           paired == last = 0 \/ read.to = call[i].at
           then == IF onward # "end"
                   THEN [call[i] EXCEPT !.at = onward, !.lines = SubSeq(lines, last + 1, Len(lines))]
                   ELSE Ended(i, IF last = 0 THEN Failed ELSE FtpGot(i, read.code))
       IN  call' = [call EXCEPT ![i] = [then EXCEPT !.paired = @ /\ paired]]
  /\ UNCHANGED <<cancel, cache, lock, dns, world>>

(* The name has no usable address, the connection is lost, or PASV names   *)
(* no address, another host's or port 0 (`parse_pasv`).                    *)
FtpFails(i) ==
  /\ call[i].at \in FtpPlaces \cup {"data"}
  /\ At(i, "greeting") => Answers(Host(i))
  /\ Ends(i, Failed)
  /\ UNCHANGED <<cancel, cache, lock, dns, world>>

(* What came until the data connection closed is the file: the reply that  *)
(* says whether it was all of it is taken for the answer to QUIT.          *)
FtpData(i) ==
  /\ At(i, "data") /\ \E size \in 0..Size[Host(i)] : Ends(i, ReadBounded(size))
  /\ UNCHANGED <<cancel, cache, lock, dns, world>>

(* The server begins a line that it never ends, to a command or to the QUIT *)
(* that follows the size and the file: `read_line` takes what comes, however *)
(* long, and each byte starts the timeout of the read again.                *)
FtpDribbles(i) ==
  /\ call[i].at \in FtpPlaces \cup {"data"}
  /\ At(i, "greeting") => Answers(Host(i)) /\ Pinned(Host(i), call[i].local) # {}
  /\ Goes(i, "dribble")
  /\ UNCHANGED <<cancel, cache, lock, dns, world>>

-----------------------------------------------------------------------------
(* The world. *)

Tick ==
  /\ world < MaxWorld /\ world' = world + 1
  /\ \E key \in DOMAIN cache : cache[key].age < Fresh
  /\ cache' = [key \in DOMAIN cache |->
                [cache[key] EXCEPT !.age = IF @ < Fresh THEN @ + 1 ELSE @]]
  /\ UNCHANGED <<call, cancel, lock, dns>>

Readdress ==
  /\ world < MaxWorld /\ world' = world + 1
  /\ \E name \in Names, to \in {{"local"}, Hangs} :
       dns' = [dns EXCEPT ![name] = to]
  /\ UNCHANGED <<call, cancel, cache, lock>>

Helper(i) ==
  \/ TakesClient(i) \/ Locks(i) \/ Resolves(i) \/ Redirects(i) \/ RequestFails(i)
  \/ HeadAnswers(i) \/ RangedAnswer(i) \/ BodyAnswers(i)
  \/ FtpStep(i) \/ FtpFails(i) \/ FtpData(i)

NetworkNext ==
  \/ \E i \in Calls :
       Start(i) \/ StartCancelled(i) \/ CancelCall(i) \/ Returns(i) \/ Helper(i) \/ FtpDribbles(i)
  \/ Tick \/ Readdress

\* A caller polls every 50 ms. An HTTPS request has a timeout for the whole
\* of it, a connection one of its own, and the data of a file a bound. A
\* resolver that hangs answers nothing; an FTP server ends its lines, or falls
\* silent until the read times out, except where FtpDribbles says.
Fairness == \A i \in Calls : WF_networkVars(Returns(i)) /\ WF_networkVars(Helper(i))

NetworkSpec == NetworkInit /\ [][NetworkNext]_networkVars /\ Fairness

-----------------------------------------------------------------------------
(* Properties. *)

Got == {Failed, Nothing} \cup [ok : {TRUE}, size : Int]
Call == [op : {"none", "get", "size", "file"}, url : Url \cup {NoUrl}, start : Hosts \cup {"none"},
         local : BOOLEAN,
         at : {"none", "client", "resolve", "send", "ranged", "data", "dribble", "end"} \cup FtpPlaces,
         wait : {"none", "waits", "done", "cancelled"}, pins : SUBSET Addresses, tried : Nat,
         lines : Seq([to : FtpPlaces, code : Nat, more : BOOLEAN]), paired : BOOLEAN, got : Got]

NetworkTypeOK ==
  /\ call \in [Calls -> Call] /\ cancel \subseteq Calls
  /\ DOMAIN cache \subseteq Hosts \X BOOLEAN
  /\ cache \in [DOMAIN cache -> [pins : SUBSET Addresses, age : 0..Fresh]]
  /\ lock \in Calls \cup {Free} /\ \A i \in Calls : lock = i <=> At(i, "resolve")
  /\ dns \in [Hosts -> SUBSET Addresses] /\ world \in 0..MaxWorld

\* However its server redirects it, a request goes over HTTPS and along a
\* bounded chain, and to an address written out of the local network only if
\* that was asked for, with the opt-in.
RequestsStayGuarded ==
  \A i \in Calls :
    call[i].at \in {"send", "ranged"} =>
      /\ call[i].url.scheme = "https" /\ call[i].tried \in 1..MaxRedirects
      /\ Host(i) = "lan" => call[i].start = "lan" /\ call[i].local

\* The size of a file that a call reports is the file's, whichever way the
\* server was asked and whatever part of the answer it left out.
SizeIsTrue ==
  \A i \in Calls :
    call[i].op = "size" /\ call[i].got.ok => call[i].got.size \in {-1, Size[Host(i)]}

\* Every reply the FTP dialogue acts on is the answer to the command it just
\* sent, whatever the form of the replies before it.
RepliesArePaired == \A i \in Calls : call[i].paired

\* A call works with a client that was built for it: without the opt-in, none
\* that is pinned to a local address, whoever built it.
ClientFitsTheCall ==
  \A i \in Calls : ~call[i].local => "local" \notin call[i].pins

Hung(i) == (At(i, "resolve") \/ At(i, "greeting")) /\ ~Answers(Host(i))

\* A helper ends, whatever its server does, unless a resolver hangs, its own
\* or that of the call which holds the lock, or an FTP server never ends a
\* line. Whatever its helper meets, a caller that cancels is let go.
CallsEnd ==
  \A i \in Calls :
    /\ ~At(i, "none") ~> At(i, "end") \/ At(i, "dribble") \/ \E j \in Calls : Hung(j)
    /\ (i \in cancel /\ call[i].wait = "waits") ~> (call[i].wait # "waits")
=============================================================================
