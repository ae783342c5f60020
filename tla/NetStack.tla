------------------------------ MODULE NetStack ------------------------------
(***************************************************************************)
(* The network block of kernelMain (kernel/kernel.cpp:2203-2283): it builds*)
(* the protocol objects on its stack, one on top of the other, asks for    *)
(* the gateway's address and announces its own, and destroys them in the   *)
(* opposite order when the block ends.  Interrupts are on throughout, so   *)
(* the card's handler can bring a frame to an object between any two steps *)
(* of its construction or destruction (Network/EtherFrame.cpp, arp.cpp,    *)
(* InternetProtocolV4.cpp, ICMP.cpp).                                      *)
(*                                                                         *)
(* An object enters itself in its backend's table in the constructor of    *)
(* its base class, before its own virtual functions are in place ("base")  *)
(* and before its own fields are set ("raw").  The handler runs with       *)
(* interrupts off, so that one frame is one step; but the card brings      *)
(* frames while it runs, and it forgets those behind its last look         *)
(* (Drivers/AM79C973.cpp:136-141).  The card's rings are modelled in Nic.  *)
(***************************************************************************)
EXTENDS Integers, Sequences, SequencesExt

CONSTANTS CacheSize,  \* entries of IPcache: 128 in the code
          Macs,       \* hardware addresses, but for NoMac
          MaxStrays   \* BOUND: frames nobody asked for

ASSUME NetStackAssumption == CacheSize \in Nat \ {0} /\ MaxStrays \in Nat

\* In the order of construction.
Order == <<"etherframe", "arp", "ipv4", "icmp">>
Layers == ToSet(Order)
Hosts == {"gateway", "other"}
NoMac == "ff:ff:ff:ff:ff:ff"

\* The frames for this machine that some layer looks into.  A reply may name any
\* address, NoMac included.  The type 0xFFFF and the protocol 255 index their tables,
\* of 65535 and 255 entries, one behind the end (EtherFrame.h:36,
\* InternetProtocolV4.h:47).
Reply(ip, mac) == [kind |-> "reply", ip |-> ip, mac |-> mac]
Request == [kind |-> "request"]   \* who has this machine's address?
Ping == [kind |-> "ping"]
TypeFFFF == [kind |-> "type 0xFFFF"]
Protocol255 == [kind |-> "protocol 255"]
Frame == {Request, Ping, TypeFFFF, Protocol255}
            \cup {Reply(ip, mac) : ip \in Hosts, mac \in Macs \cup {NoMac}}
NoFrame == [kind |-> "none"]

VARIABLES
    step,       \* where kernelMain is
    status,     \* how far each object is built
    registered, \* the objects that are in their backend's table
    cache,      \* IPcache and MACcache, up to numCacheEntries
    announced,  \* the address the announcement was sent to
    inbox,      \* frames the card has for the handler
    rint,       \* the card's bit for a received frame, which raises its interrupt
    handler,    \* the card's handler: not running, looking for frames, or behind that
    asked,      \* the request for the gateway's address is on the wire
    strays,     \* counts up to MaxStrays
    answered,   \* ghost: frames sent back, with what was built at the time
    lost,       \* ghost: the request or a reply was lost
    handled,    \* ghost: the frame that was handled last
    wild        \* a call through an entry that is no object has been made

vars == <<step, status, registered, cache, announced, inbox, rint, handler, asked, strays,
          answered, lost, handled, wild>>
netVars == <<inbox, rint, handler, asked, strays, answered, lost, handled, wild>>

TypeOK ==
    /\ step \in {"build", "lookup", "spin", "announce", "destroy", "running"}
    /\ status \in [Layers -> {"none", "base", "raw", "ready", "dead"}]
    /\ registered \subseteq Layers
    /\ cache \in Seq([ip : Hosts, mac : Macs \cup {NoMac}]) /\ Len(cache) <= CacheSize
    /\ announced \in Macs \cup {NoMac}
    /\ inbox \in Seq(Frame) /\ handled \in Frame \cup {NoFrame}
    /\ rint \in BOOLEAN /\ handler \in {"out", "looks", "acknowledges"}
    /\ asked \in BOOLEAN /\ lost \in BOOLEAN /\ wild \in BOOLEAN
    /\ strays \in 0 .. MaxStrays
    /\ answered \subseteq {"request", "ping"} \X SUBSET Layers
-----------------------------------------------------------------------------
\* GetMACFromCache: the first entry for the address, or the broadcast address.
GetMACFromCache(entries, ip) ==
    LET S == {i \in 1 .. Len(entries) : entries[i].ip = ip} IN
    IF S = {} THEN NoMac ELSE entries[CHOOSE i \in S : \A j \in S : i <= j].mac

\* One entry too many is used.
StoreOneMore(entries, f) ==
    IF Len(entries) <= CacheSize
    THEN Append(entries, [ip |-> f.ip, mac |-> f.mac]) ELSE entries

\* A cached reply: added at the end while there is room.
Store(entries, f) ==
    IF Len(entries) < CacheSize
    THEN Append(entries, [ip |-> f.ip, mac |-> f.mac]) ELSE entries

\* A call to the base class's function is answered like any other.
CallOfBaseAnswers(o, raw, ready) ==
    IF o \notin registered THEN {"ignored"}
    ELSE IF status[o] = "raw" THEN raw ELSE ready

\* What can come of a call to o through its backend's table: nothing, before its
\* virtual functions are in place; raw or ready, once they are; anything else
\* once it is no more.
CallOf(o, raw, ready) ==
    IF o \notin registered \/ status[o] = "base" THEN {"ignored"}
    ELSE CASE status[o] = "raw" -> raw
           [] status[o] = "ready" -> ready
           [] OTHER -> {"wild"}

\* A table that is not cleared yet, what lies behind a table, or a count of entries
\* that is not set yet may hold anything (EtherFrame.cpp:52, arp.cpp:37,
\* InternetProtocolV4.cpp:57).  Behind IPv4's table lies its pointer to the ARP
\* object, which takes the sender's address for that of its frame.
Garbage == {"ignored", "wild"}

IcmpOutcome == CallOf("icmp", {"answered"}, {"answered"})
Ipv4Outcome(f) == CallOf("ipv4", Garbage, IF f = Protocol255 THEN Garbage ELSE IcmpOutcome)
ArpOutcome(f) ==
    IF f = Request THEN CallOf("arp", {"answered"}, {"answered"})
    ELSE CallOf("arp", Garbage, {"stored"})

\* AM79C973::receive, EtherFrameProvider::OnRawDataReceived and the handlers above.
Outcome(f) ==
    CallOf("etherframe", Garbage,
           CASE f = TypeFFFF -> Garbage
             [] f \in {Ping, Protocol255} -> Ipv4Outcome(f)
             [] OTHER -> ArpOutcome(f))

Built == {o \in Layers : status[o] \in {"raw", "ready"} /\ o \in registered}
-----------------------------------------------------------------------------
Init ==
    /\ step = "build"
    /\ status = [o \in Layers |-> "none"]
    /\ registered = {}
    /\ cache = << >>
    /\ announced = NoMac
    /\ inbox = << >>
    /\ rint = FALSE
    /\ handler = "out"
    /\ asked = FALSE
    /\ strays = 0
    /\ answered = {}
    /\ lost = FALSE
    /\ handled = NoFrame
    /\ wild = FALSE

(* kernelMain builds, in the order of Order.  It moves while no handler    *)
(* runs and it has not gone wild.                                          *)

Runs(at) == ~wild /\ handler = "out" /\ step = at

Below(i) == i > 1 => status[Order[i - 1]] = "ready"

\* RawDataHandler, EtherFrameHandler and InternetProtocolHandler: the object is
\* entered in the table while it still has the base class's virtual functions.
Register(i) ==
    LET o == Order[i] IN
    /\ Runs("build") /\ status[o] = "none" /\ Below(i)
    /\ status' = [status EXCEPT ![o] = "base"]
    /\ registered' = registered \cup {o}
    /\ UNCHANGED <<step, cache, announced, netVars>>

\* The derived constructor begins: its virtual functions come first.  The ICMP
\* object has no fields of its own.
Derive(o) ==
    /\ Runs("build") /\ status[o] = "base"
    /\ status' = [status EXCEPT ![o] = IF o = "icmp" THEN "ready" ELSE "raw"]
    /\ UNCHANGED <<step, registered, cache, announced, netVars>>

\* Its body: the tables are cleared, numCacheEntries is set to 0.
Initialise(o) ==
    /\ Runs("build") /\ status[o] = "raw"
    /\ status' = [status EXCEPT ![o] = "ready"]
    /\ cache' = IF o = "arp" THEN << >> ELSE cache
    /\ UNCHANGED <<step, registered, announced, netVars>>

AllBuilt ==
    /\ Runs("build") /\ \A o \in Layers : status[o] = "ready"
    /\ step' = "lookup"
    /\ UNCHANGED <<status, registered, cache, announced, netVars>>

(* BroadcastMACAddress(gateway), with Resolve inside it.                   *)

Gateway == GetMACFromCache(cache, "gateway")

\* The request is not sent.
ResolveUnasked ==
    /\ Runs("lookup")
    /\ step' = IF Gateway = NoMac THEN "spin" ELSE "announce"
    /\ UNCHANGED <<status, registered, cache, announced, netVars>>

\* Resolve: the cache, and one request if the address is not in it.
Resolve ==
    /\ Runs("lookup")
    /\ step' = IF Gateway = NoMac THEN "spin" ELSE "announce"
    /\ asked' = (Gateway = NoMac)
    /\ UNCHANGED <<status, registered, cache, announced, inbox, rint, handler, strays,
                   answered, lost, handled, wild>>

\* while(result == 0xFFFFFFFFFFFF): the turn that finds it.
Resolved ==
    /\ Runs("spin") /\ Gateway # NoMac
    /\ step' = "announce"
    /\ UNCHANGED <<status, registered, cache, announced, netVars>>

Announce ==
    /\ Runs("announce")
    /\ announced' = Gateway
    /\ step' = "destroy"
    /\ UNCHANGED <<status, registered, cache, netVars>>

(* The end of the block: the last object first.                            *)

Above(i) == i < Len(Order) => status[Order[i + 1]] = "dead"

\* The base class's destructor puts back its own virtual functions ...
Strip(i) ==
    LET o == Order[i] IN
    /\ Runs("destroy") /\ status[o] = "ready" /\ Above(i)
    /\ status' = [status EXCEPT ![o] = "base"]
    /\ UNCHANGED <<step, registered, cache, announced, netVars>>

\* The object goes and stays in its backend's table.
UnregisterNot(i) ==
    LET o == Order[i] IN
    /\ Runs("destroy") /\ status[o] = "base"
    /\ status' = [status EXCEPT ![o] = "dead"]
    /\ step' = IF i = 1 THEN "running" ELSE step
    /\ UNCHANGED <<registered, cache, announced, netVars>>

\* ... and takes the object out of its backend's table; the object is gone.
Unregister(i) ==
    LET o == Order[i] IN
    /\ Runs("destroy") /\ status[o] = "base"
    /\ status' = [status EXCEPT ![o] = "dead"]
    /\ registered' = registered \ {o}
    /\ step' = IF i = 1 THEN "running" ELSE step
    /\ UNCHANGED <<cache, announced, netVars>>

(* The card's interrupt.                                                   *)

Interrupt ==
    /\ ~wild /\ handler = "out" /\ rint
    /\ handler' = "looks"
    /\ UNCHANGED <<step, status, registered, cache, announced, inbox, rint, asked, strays,
                   answered, lost, handled, wild>>

\* What a frame does: an answer is sent back, a reply is stored, or nothing.
HandleFrame ==
    /\ ~wild /\ handler = "looks" /\ inbox # << >>
    /\ inbox' = Tail(inbox)
    /\ handled' = Head(inbox)
    /\ \E out \in Outcome(Head(inbox)) :
         /\ wild' = (out = "wild")
         /\ cache' = IF out = "stored" THEN Store(cache, Head(inbox)) ELSE cache
         /\ answered' = IF out = "answered"
                        THEN answered \cup {<<Head(inbox).kind, Built>>} ELSE answered
    /\ UNCHANGED <<step, status, registered, announced, rint, handler, asked, strays, lost>>

\* No frame waits (any more) ...
LastLook ==
    /\ ~wild /\ handler = "looks" /\ inbox = << >>
    /\ handler' = "acknowledges"
    /\ UNCHANGED <<step, status, registered, cache, announced, inbox, rint, asked, strays,
                   answered, lost, handled, wild>>

\* ... and the bit is cleared, also for a frame that has come since.
Acknowledge ==
    /\ ~wild /\ handler = "acknowledges"
    /\ handler' = "out" /\ rint' = FALSE
    /\ UNCHANGED <<step, status, registered, cache, announced, inbox, asked, strays,
                   answered, lost, handled, wild>>

(* The network.                                                            *)

Arrives(f) ==
    /\ inbox' = Append(inbox, f)
    /\ rint' = TRUE
    /\ UNCHANGED <<step, status, registered, cache, announced, handler, answered, lost,
                   handled, wild>>

GatewayAnswers ==
    /\ asked
    /\ asked' = FALSE
    /\ \E mac \in Macs \cup {NoMac} : Arrives(Reply("gateway", mac))
    /\ UNCHANGED strays

\* The request is lost, or the frame the handler would have looked at next.
Lose ==
    /\ asked \/ inbox # << >>
    /\ IF asked THEN asked' = FALSE /\ UNCHANGED inbox
       ELSE inbox' = Tail(inbox) /\ UNCHANGED asked
    /\ lost' = (lost \/ asked \/ Head(inbox).kind = "reply")
    /\ UNCHANGED <<step, status, registered, cache, announced, rint, handler, strays,
                   answered, handled, wild>>

Stray(f) ==
    /\ strays < MaxStrays                                               \* BOUND
    /\ strays' = strays + 1
    /\ Arrives(f)
    /\ UNCHANGED asked

Construct == \/ \E i \in 1 .. Len(Order) : Register(i)
             \/ \E o \in Layers : Derive(o) \/ Initialise(o)
Destroy == \E i \in 1 .. Len(Order) : Strip(i) \/ Unregister(i)
KernelMain == Construct \/ AllBuilt \/ Resolve \/ Resolved \/ Announce \/ Destroy

Handler == Interrupt \/ HandleFrame \/ LastLook \/ Acknowledge

Next ==
    \/ KernelMain
    \/ Handler
    \/ GatewayAnswers \/ Lose \/ \E f \in Frame : Stray(f)

\* kernelMain runs whenever it can, an interrupt that is raised is taken and its handler
\* runs on, and a request on the wire is answered or lost.
Spec == /\ Init /\ [][Next]_vars
        /\ WF_vars(KernelMain) /\ WF_vars(Handler)
        /\ WF_vars(GatewayAnswers \/ (asked /\ Lose))
-----------------------------------------------------------------------------
\* Control is lost only while some object's fields are still to be set, or by a frame
\* that indexes a whole table one behind its end: no frame ever reaches an object that
\* is being destroyed or is gone, although the objects are destroyed with interrupts on
\* (EtherFrame.cpp:10-14 and 52, InternetProtocolV4.cpp:10-14 and 57,
\* AM79C973.cpp:9-12).
WildHasACause ==
    wild => \/ \E o \in Layers : status[o] = "raw"
            \/ handled = TypeFFFF /\ status["etherframe"] = "ready"
            \/ handled = Protocol255 /\ status["ipv4"] = "ready"

\* A table never names an object that is gone (kernel.cpp:2283): once the block is
\* left the card's frames reach nobody, the web server's and a ping's included.
NoTableNamesTheDead == \A o \in registered : status[o] # "dead"

\* An echo request is answered only through a whole stack, an address request
\* through the two layers it needs, however far the others are built or
\* destroyed (EtherFrame.cpp:52-54, InternetProtocolV4.cpp:57-60).
AnswersNeedTheirLayers ==
    \A a \in answered :
        IF a[1] = "ping" THEN a[2] = Layers ELSE {"etherframe", "arp"} \subseteq a[2]

\* A frame waits and nothing tells the handler (AM79C973.cpp:136-141).
Stranded == inbox # << >> /\ handler = "out" /\ ~rint

\* The gateway's entry says what GetMACFromCache says when there is none, or there is
\* none and no room for one (arp.cpp:38, 93, 101).
NeverResolved ==
    /\ Gateway = NoMac
    /\ \/ Len(cache) = CacheSize
       \/ \E k \in 1 .. Len(cache) : cache[k].ip = "gateway"

\* If Resolve spins for good (arp.cpp:97-104), the one request or its answer was lost,
\* waits unseen in the card's ring, named the broadcast address or found the cache full
\* of others' answers.
ResolveReturns ==
    <>[](step = "spin") => <>[](wild \/ lost \/ Stranded \/ NeverResolved)
=============================================================================
