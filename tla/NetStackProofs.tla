--------------------------- MODULE NetStackProofs ---------------------------
(***************************************************************************)
(* What NetStack's run checks with a cache of two entries and two hardware *)
(* addresses, proved for any of both.                                      *)
(*                                                                         *)
(* The argument: an object is in its backend's table from the first step   *)
(* of its construction to the last of its destruction, and the objects are *)
(* built from below and destroyed from above, so that all below one that   *)
(* takes calls are whole.                                                  *)
(***************************************************************************)
EXTENDS NetStack, SequenceTheorems, WellFoundedInduction, TLAPS

St(i) == status[Order[i]]
Living == {"base", "raw", "ready"}

\* The tables name the objects that are built, being built or being destroyed.
TablesNameTheLiving == \A o \in Layers : o \in registered <=> status[o] \in Living

\* An object is begun when the one below is whole.
BuiltFromBelow ==
    step = "build" =>
      /\ \A i \in 1 .. 4 : St(i) # "dead"
      /\ \A i \in 1 .. 3 : St(i + 1) # "none" => St(i) = "ready"

AllWhole == step \in {"lookup", "spin", "announce"} => \A i \in 1 .. 4 : St(i) = "ready"

\* An object begins to go when the one above is gone.
DestroyedFromAbove ==
    step = "destroy" =>
      /\ \A i \in 1 .. 4 : St(i) \in {"ready", "base", "dead"}
      /\ \A i \in 1 .. 3 : St(i) # "ready" => St(i + 1) = "dead"

AllGone == step = "running" => \A i \in 1 .. 4 : St(i) = "dead"

IInv ==
    /\ TypeOK
    /\ TablesNameTheLiving
    /\ BuiltFromBelow
    /\ AllWhole
    /\ DestroyedFromAbove
    /\ AllGone
    /\ WildHasACause
    /\ AnswersNeedTheirLayers
-----------------------------------------------------------------------------
\* What the names of the layers are, and their order.
LEMMA OrderFacts ==
    /\ Len(Order) = 4
    /\ Order[1] = "etherframe" /\ Order[2] = "arp" /\ Order[3] = "ipv4" /\ Order[4] = "icmp"
    /\ Layers = {"etherframe", "arp", "ipv4", "icmp"}
    /\ \A i \in 1 .. 4 : Order[i] \in Layers
    /\ \A i, j \in 1 .. 4 : Order[i] = Order[j] => i = j
    /\ \A o \in Layers : \E i \in 1 .. 4 : o = Order[i]
<1>1. \A i \in 1 .. 4 : i = 1 \/ i = 2 \/ i = 3 \/ i = 4
  OBVIOUS
<1>2. Len(Order) = 4 /\ DOMAIN Order = 1 .. 4
  BY DEF Order
<1>3. Order[1] = "etherframe" /\ Order[2] = "arp" /\ Order[3] = "ipv4" /\ Order[4] = "icmp"
  BY DEF Order
<1>4. Layers = {Order[i] : i \in 1 .. 4}
  BY <1>2 DEF Layers, ToSet
<1>. HIDE DEF Order
<1>5. Layers = {"etherframe", "arp", "ipv4", "icmp"}
  BY <1>1, <1>3, <1>4
<1>. QED
  BY <1>1, <1>2, <1>3, <1>4, <1>5

\* The empty cache.
LEMMA NoEntries ==
    << >> \in Seq([ip : Hosts, mac : Macs \cup {NoMac}]) /\ Len(<< >>) <= CacheSize
<1>1. Len(<< >>) = 0 /\ CacheSize \in Nat
  BY NetStackAssumption
<1>2. << >> \in Seq([ip : Hosts, mac : Macs \cup {NoMac}])
  BY EmptySeq
<1>. QED
  BY <1>1, <1>2

\* A set of naturals that is not empty has a smallest element.
LEMMA Smallest ==
    ASSUME NEW S, S \subseteq Nat, S # {}
    PROVE  \E i \in S : \A j \in S : i <= j
<1>. DEFINE R == OpToRel(<, Nat)
<1>1. IsWellFoundedOn(R, Nat)
  BY NatLessThanWellFounded
<1>2. \A x, y \in Nat : y < x => <<y, x>> \in R
  BY DEF OpToRel
<1>. HIDE DEF R
<1>3. PICK i \in S : \A j \in S : <<j, i>> \notin R
  BY <1>1, WFMin
<1>4. ASSUME NEW j \in S PROVE i <= j
  <2>1. i \in Nat /\ j \in Nat
    OBVIOUS
  <2>2. ~(j < i)
    BY <1>2, <1>3, <2>1
  <2>. QED
    BY <2>1, <2>2
<1>. QED
  BY <1>4

\* The kinds of frames are different.
LEMMA FrameFacts ==
    /\ Request.kind = "request" /\ Ping.kind = "ping" /\ Ping # Request
    /\ Protocol255 \notin {Request, Ping} /\ TypeFFFF \notin {Request, Ping, Protocol255}
    /\ \A f \in Frame : \/ f \in {Request, Ping, TypeFFFF, Protocol255}
                        \/ /\ f.kind = "reply" /\ f.ip \in Hosts
                           /\ f.mac \in Macs \cup {NoMac}
                           /\ f \notin {Request, Ping, TypeFFFF, Protocol255}
<1>1. /\ Request.kind = "request" /\ Ping.kind = "ping"
      /\ TypeFFFF.kind = "type 0xFFFF" /\ Protocol255.kind = "protocol 255"
  BY DEF Request, Ping, TypeFFFF, Protocol255
<1>2. /\ Ping # Request /\ Protocol255 \notin {Request, Ping}
      /\ TypeFFFF \notin {Request, Ping, Protocol255}
  BY <1>1
<1>3. ASSUME NEW f \in Frame, f \notin {Request, Ping, TypeFFFF, Protocol255}
      PROVE  f.kind = "reply" /\ f.ip \in Hosts /\ f.mac \in Macs \cup {NoMac}
  BY <1>3 DEF Frame, Reply
<1>. QED
  BY <1>1, <1>2, <1>3

\* What a call can come to, when the tables name the living.
LEMMA CallFacts ==
    ASSUME IInv, NEW o \in Layers, NEW raw, NEW ready, NEW out \in CallOf(o, raw, ready)
    PROVE  \/ out = "ignored"
           \/ status[o] = "raw" /\ out \in raw
           \/ status[o] = "ready" /\ out \in ready
BY DEF CallOf, IInv, TablesNameTheLiving, Living, TypeOK

\* A frame does harm only through an object whose fields are not set, or behind a table.
LEMMA WildNeedsACause ==
    ASSUME IInv, NEW f \in Frame, "wild" \in Outcome(f)
    PROVE  \/ \E o \in Layers : status[o] = "raw"
           \/ f = TypeFFFF /\ status["etherframe"] = "ready"
           \/ f = Protocol255 /\ status["ipv4"] = "ready"
<1>. USE OrderFacts
<1>. SUFFICES ASSUME \A o \in Layers : status[o] # "raw"
              PROVE  \/ f = TypeFFFF /\ status["etherframe"] = "ready"
                     \/ f = Protocol255 /\ status["ipv4"] = "ready"
  OBVIOUS
<1>1. "wild" \notin IcmpOutcome
  BY CallFacts DEF IcmpOutcome
<1>2. "wild" \in Ipv4Outcome(f) => f = Protocol255 /\ status["ipv4"] = "ready"
  BY <1>1, CallFacts DEF Ipv4Outcome
<1>3. "wild" \notin ArpOutcome(f)
  BY CallFacts DEF ArpOutcome
<1>4. /\ status["etherframe"] = "ready"
      /\ "wild" \in CASE f = TypeFFFF -> Garbage
                     [] f \in {Ping, Protocol255} -> Ipv4Outcome(f)
                     [] OTHER -> ArpOutcome(f)
  BY CallFacts DEF Outcome
<1>. QED
  BY <1>2, <1>3, <1>4, FrameFacts

\* A frame is answered only through the layers it needs.
LEMMA AnswerNeedsLayers ==
    ASSUME IInv, NEW f \in Frame, "answered" \in Outcome(f)
    PROVE  \/ f = Ping /\ Built = Layers
           \/ f = Request /\ {"etherframe", "arp"} \subseteq Built
<1>. USE OrderFacts
<1>. DEFINE TakesCalls(o) == status[o] \in {"raw", "ready"} /\ o \in registered
<1>1. \A o \in Layers : status[o] \in {"raw", "ready"} => TakesCalls(o)
  BY DEF IInv, TablesNameTheLiving, Living
<1>2. /\ status["etherframe"] = "ready"
      /\ "answered" \in CASE f = TypeFFFF -> Garbage
                         [] f \in {Ping, Protocol255} -> Ipv4Outcome(f)
                         [] OTHER -> ArpOutcome(f)
  BY CallFacts DEF Outcome, Garbage
<1>6. f # TypeFFFF /\ (f = Ping \/ f = Protocol255 => "answered" \in Ipv4Outcome(f))
  BY <1>2, FrameFacts DEF Garbage
<1>7. f \notin {Ping, Protocol255} => "answered" \in ArpOutcome(f)
  BY <1>2, <1>6
<1>8. f # Protocol255
  BY <1>6, CallFacts DEF Ipv4Outcome, Garbage
<1>3. CASE f = Ping
  <2>1. status["ipv4"] = "ready" /\ "answered" \in IcmpOutcome
    BY <1>3, <1>6, <1>8, CallFacts DEF Ipv4Outcome, Garbage
  <2>2. status["icmp"] \in {"raw", "ready"}
    BY <2>1, CallFacts DEF IcmpOutcome
  <2>3. status["arp"] = "ready"
    <3>1. St(3) = "ready" /\ St(2) = status["arp"] /\ 2 \in 1 .. 3 /\ 3 \in 1 .. 4 /\ 2 + 1 = 3
      BY <2>1 DEF St
    <3>2. step \in {"build", "lookup", "spin", "announce", "destroy", "running"}
      BY DEF IInv, TypeOK
    <3>. QED
      BY <3>1, <3>2 DEF IInv, BuiltFromBelow, AllWhole, DestroyedFromAbove, AllGone
  <2>. QED
    BY <1>1, <1>2, <1>3, <2>1, <2>2, <2>3 DEF Built
<1>4. CASE f = Request
  <2>1. status["arp"] \in {"raw", "ready"}
    BY <1>4, <1>7, FrameFacts, CallFacts DEF ArpOutcome
  <2>. QED
    BY <1>1, <1>2, <1>4, <2>1 DEF Built
<1>5. CASE f # Ping /\ f # Request
  BY <1>5, <1>7, <1>8, CallFacts DEF ArpOutcome, Garbage
<1>. QED
  BY <1>3, <1>4, <1>5
-----------------------------------------------------------------------------
\* A frame is handled.
LEMMA HandleFrameKeeps ==
    ASSUME IInv, HandleFrame
    PROVE  IInv'
<1>. DEFINE f == Head(inbox)
<1>1. f \in Frame /\ inbox' \in Seq(Frame)
  BY HeadTailProperties DEF HandleFrame, IInv, TypeOK
<1>2. PICK out \in Outcome(f) :
        /\ wild' = (out = "wild")
        /\ cache' = IF out = "stored" THEN Store(cache, f) ELSE cache
        /\ answered' = IF out = "answered" THEN answered \cup {<<f.kind, Built>>} ELSE answered
  BY DEF HandleFrame
<1>3. /\ UNCHANGED <<step, status, registered, announced, rint, handler, asked, strays, lost>>
      /\ handled' = f
  BY DEF HandleFrame
<1>4. WildHasACause'
  <2>1. wild' => "wild" \in Outcome(f)
    BY <1>2
  <2>. QED
    BY <1>1, <1>3, <2>1, WildNeedsACause DEF WildHasACause
<1>5. out = "answered" => \/ f.kind = "ping" /\ Built = Layers
                          \/ f.kind = "request" /\ {"etherframe", "arp"} \subseteq Built
  BY <1>1, AnswerNeedsLayers, FrameFacts
<1>6. AnswersNeedTheirLayers'
  <2>. SUFFICES ASSUME NEW a \in answered'
                PROVE  IF a[1] = "ping" THEN a[2] = Layers
                       ELSE {"etherframe", "arp"} \subseteq a[2]
    BY DEF AnswersNeedTheirLayers
  <2>1. CASE a \in answered
    BY <2>1 DEF IInv, AnswersNeedTheirLayers
  <2>2. CASE out = "answered" /\ a = <<f.kind, Built>>
    BY <1>5, <2>2
  <2>. QED
    BY <1>2, <2>1, <2>2
<1>7. cache' \in Seq([ip : Hosts, mac : Macs \cup {NoMac}]) /\ Len(cache') <= CacheSize
  <2>1. CASE out = "stored"
    <3>1. f.ip \in Hosts /\ f.mac \in Macs \cup {NoMac}
      <4>1. f \notin {Request, Ping, TypeFFFF, Protocol255}
        <5>1. "stored" \notin IcmpOutcome
          BY OrderFacts, CallFacts DEF IcmpOutcome
        <5>2. "stored" \notin Ipv4Outcome(f)
          BY <5>1, OrderFacts, CallFacts DEF Ipv4Outcome, Garbage
        <5>3. f = Request => "stored" \notin ArpOutcome(f)
          BY OrderFacts, CallFacts DEF ArpOutcome
        <5>4. "stored" \in CASE f = TypeFFFF -> Garbage
                             [] f \in {Ping, Protocol255} -> Ipv4Outcome(f)
                             [] OTHER -> ArpOutcome(f)
          BY <2>1, OrderFacts, CallFacts DEF Outcome, Garbage
        <5>. QED
          BY <5>2, <5>3, <5>4, FrameFacts DEF Garbage
      <4>. QED
        BY <1>1, <4>1, FrameFacts
    <3>2. [ip |-> f.ip, mac |-> f.mac] \in [ip : Hosts, mac : Macs \cup {NoMac}]
      BY <3>1
    <3>. DEFINE e == [ip |-> f.ip, mac |-> f.mac]
    <3>3. cache \in Seq([ip : Hosts, mac : Macs \cup {NoMac}]) /\ Len(cache) <= CacheSize
      BY DEF IInv, TypeOK
    <3>4. cache' = Store(cache, f)
      BY <1>2, <2>1
    <3>5. CASE Len(cache) < CacheSize
      <4>1. cache' = Append(cache, e)
        BY <3>4, <3>5 DEF Store
      <4>2. Append(cache, e) \in Seq([ip : Hosts, mac : Macs \cup {NoMac}]) /\ Len(Append(cache, e)) = Len(cache) + 1
        BY <3>2, <3>3, AppendProperties
      <4>3. Len(cache) \in Nat /\ CacheSize \in Nat
        BY <3>3, LenProperties, NetStackAssumption
      <4>. QED
        BY <3>5, <4>1, <4>2, <4>3
    <3>6. CASE ~(Len(cache) < CacheSize)
      BY <3>3, <3>4, <3>6 DEF Store
    <3>. QED
      BY <3>5, <3>6
  <2>2. CASE out # "stored"
    BY <1>2, <2>2 DEF IInv, TypeOK
  <2>. QED
    BY <2>1, <2>2
<1>8. answered' \subseteq {"request", "ping"} \X SUBSET Layers
  <2>1. Built \in SUBSET Layers
    BY DEF Built
  <2>. QED
    BY <1>2, <1>5, <2>1 DEF IInv, TypeOK
<1>9. TypeOK'
  BY <1>1, <1>2, <1>3, <1>7, <1>8 DEF IInv, TypeOK
<1>10. /\ TablesNameTheLiving' /\ BuiltFromBelow' /\ AllWhole' /\ DestroyedFromAbove' /\ AllGone'
  BY <1>3 DEF IInv, TablesNameTheLiving, BuiltFromBelow, AllWhole, DestroyedFromAbove,
              AllGone, St
<1>. QED
  BY <1>4, <1>6, <1>9, <1>10 DEF IInv

\* The network's steps, and none, leave the objects alone.
LEMMA ObjectsKept ==
    ASSUME IInv, TypeOK',
           UNCHANGED <<step, status, registered, answered, handled, wild>>
    PROVE  IInv'
BY DEF IInv, TablesNameTheLiving, BuiltFromBelow, AllWhole, DestroyedFromAbove, AllGone, St,
       WildHasACause, AnswersNeedTheirLayers

\* A step of kernelMain that changes one object, in no one's name but its own.
LEMMA OneObject ==
    ASSUME IInv, NEW i \in 1 .. 4, NEW new, status' = [status EXCEPT ![Order[i]] = new]
    PROVE  /\ St(i)' = new
           /\ \A j \in 1 .. 4 : j # i => St(j)' = St(j)
BY OrderFacts DEF IInv, TypeOK, St

\* The objects begin.
LEMMA RegisterKeeps ==
    ASSUME IInv, NEW i \in 1 .. 4, Register(i)
    PROVE  IInv'
<1>. USE OrderFacts
<1>1. /\ ~wild /\ step = "build" /\ St(i) = "none" /\ Below(i)
      /\ status' = [status EXCEPT ![Order[i]] = "base"]
      /\ registered' = registered \cup {Order[i]}
      /\ UNCHANGED <<step, cache, announced, netVars>>
  BY DEF Register, Runs, St
<1>2. TypeOK'
  BY <1>1 DEF IInv, TypeOK, netVars
<1>3. TablesNameTheLiving'
  BY <1>1 DEF IInv, TypeOK, TablesNameTheLiving, Living, St
<1>4. St(i)' = "base" /\ \A j \in 1 .. 4 : j # i => St(j)' = St(j)
  BY <1>1, OneObject
<1>5. BuiltFromBelow'
  <2>1. \A j \in 1 .. 4 : St(j)' # "dead"
    BY <1>1, <1>4 DEF IInv, BuiltFromBelow
  <2>2. ASSUME NEW j \in 1 .. 3, St(j + 1)' # "none" PROVE St(j)' = "ready"
    <3>1. CASE j + 1 = i
      BY <1>1, <1>4, <3>1 DEF Below, St
    <3>2. CASE j + 1 # i
      BY <1>1, <1>4, <2>2, <3>2 DEF IInv, BuiltFromBelow
    <3>. QED
      BY <3>1, <3>2
  <2>. QED
    BY <2>1, <2>2 DEF BuiltFromBelow
<1>. QED
  BY <1>1, <1>2, <1>3, <1>5
     DEF IInv, netVars, AllWhole, DestroyedFromAbove, AllGone, WildHasACause,
         AnswersNeedTheirLayers

\* Its virtual functions are in place, and then its fields: it takes calls already.
LEMMA BuildKeeps ==
    ASSUME IInv, NEW i \in 1 .. 4, NEW new \in {"raw", "ready"},
           St(i) \in {"base", "raw"}, ~wild, step = "build", step' = step,
           status' = [status EXCEPT ![Order[i]] = new], registered' = registered,
           cache' = cache \/ cache' = << >>, UNCHANGED <<announced, netVars>>
    PROVE  IInv'
<1>. USE OrderFacts
<1>1. TypeOK'
  <2>1. cache' \in Seq([ip : Hosts, mac : Macs \cup {NoMac}]) /\ Len(cache') <= CacheSize
    BY NoEntries DEF IInv, TypeOK
  <2>. QED
    BY <2>1 DEF IInv, TypeOK, netVars
<1>2. TablesNameTheLiving'
  BY DEF IInv, TypeOK, TablesNameTheLiving, Living, St
<1>3. St(i)' = new /\ \A j \in 1 .. 4 : j # i => St(j)' = St(j)
  BY OneObject
<1>4. BuiltFromBelow'
  <2>1. \A j \in 1 .. 4 : St(j)' # "dead"
    BY <1>3 DEF IInv, BuiltFromBelow
  <2>2. ASSUME NEW j \in 1 .. 3, St(j + 1)' # "none" PROVE St(j)' = "ready"
    <3>1. St(j + 1) # "none"
      BY <1>3, <2>2
    <3>2. St(j) = "ready" /\ j # i
      BY <3>1 DEF IInv, BuiltFromBelow
    <3>. QED
      BY <1>3, <3>2
  <2>. QED
    BY <2>1, <2>2 DEF BuiltFromBelow
<1>. QED
  BY <1>1, <1>2, <1>4
     DEF IInv, netVars, AllWhole, DestroyedFromAbove, AllGone, WildHasACause,
         AnswersNeedTheirLayers

\* kernelMain goes on to its next place.
LEMMA PhaseKeeps ==
    ASSUME IInv, ~wild, TypeOK', UNCHANGED <<status, registered, answered, handled, wild>>,
           step = "build" => \A o \in Layers : status[o] = "ready",
           step \in {"build", "lookup", "spin", "announce"},
           step' \in {"lookup", "spin", "announce", "destroy"}
    PROVE  IInv'
<1>1. \A i \in 1 .. 4 : St(i) = "ready"
  BY OrderFacts DEF IInv, AllWhole, St
<1>2. TablesNameTheLiving' /\ WildHasACause' /\ AnswersNeedTheirLayers'
  BY DEF IInv, TablesNameTheLiving, WildHasACause, AnswersNeedTheirLayers
<1>3. BuiltFromBelow' /\ AllWhole' /\ DestroyedFromAbove' /\ AllGone'
  BY <1>1 DEF BuiltFromBelow, AllWhole, DestroyedFromAbove, AllGone, St
<1>. QED
  BY <1>2, <1>3 DEF IInv

\* The objects begin to go.
LEMMA StripKeeps ==
    ASSUME IInv, NEW i \in 1 .. 4, Strip(i)
    PROVE  IInv'
<1>. USE OrderFacts
<1>1. /\ ~wild /\ step = "destroy" /\ St(i) = "ready" /\ Above(i)
      /\ status' = [status EXCEPT ![Order[i]] = "base"]
      /\ UNCHANGED <<step, registered, cache, announced, netVars>>
  BY DEF Strip, Runs, St
<1>2. TypeOK'
  BY <1>1 DEF IInv, TypeOK, netVars
<1>3. TablesNameTheLiving'
  BY <1>1 DEF IInv, TypeOK, TablesNameTheLiving, Living, St
<1>4. St(i)' = "base" /\ \A j \in 1 .. 4 : j # i => St(j)' = St(j)
  BY <1>1, OneObject
<1>5. DestroyedFromAbove'
  <2>1. \A j \in 1 .. 4 : St(j)' \in {"ready", "base", "dead"}
    BY <1>1, <1>4 DEF IInv, DestroyedFromAbove
  <2>2. ASSUME NEW j \in 1 .. 3, St(j)' # "ready" PROVE St(j + 1)' = "dead"
    <3>1. CASE j = i
      BY <1>1, <1>4, <3>1 DEF Above, St
    <3>2. CASE j # i
      BY <1>1, <1>4, <2>2, <3>2 DEF IInv, DestroyedFromAbove
    <3>. QED
      BY <3>1, <3>2
  <2>. QED
    BY <2>1, <2>2 DEF DestroyedFromAbove
<1>. QED
  BY <1>1, <1>2, <1>3, <1>5
     DEF IInv, netVars, AllWhole, BuiltFromBelow, AllGone, WildHasACause,
         AnswersNeedTheirLayers

\* They are gone, and out of the tables.
LEMMA UnregisterKeeps ==
    ASSUME IInv, NEW i \in 1 .. 4, Unregister(i)
    PROVE  IInv'
<1>. USE OrderFacts
<1>1. /\ ~wild /\ step = "destroy" /\ St(i) = "base"
      /\ status' = [status EXCEPT ![Order[i]] = "dead"]
      /\ registered' = registered \ {Order[i]}
      /\ step' = IF i = 1 THEN "running" ELSE step
      /\ UNCHANGED <<cache, announced, netVars>>
  BY DEF Unregister, Runs, St
<1>2. TypeOK'
  BY <1>1 DEF IInv, TypeOK, netVars
<1>3. TablesNameTheLiving'
  BY <1>1 DEF IInv, TypeOK, TablesNameTheLiving, Living
<1>4. St(i)' = "dead" /\ \A j \in 1 .. 4 : j # i => St(j)' = St(j)
  BY <1>1, OneObject
<1>5. DestroyedFromAbove'
  BY <1>1, <1>4 DEF IInv, DestroyedFromAbove
<1>6. AllGone'
  <2>1. CASE i = 1
    <3>1. St(2) = "dead"
      BY <1>1, <2>1 DEF IInv, DestroyedFromAbove
    <3>2. St(3) = "dead"
      BY <1>1, <3>1 DEF IInv, DestroyedFromAbove
    <3>3. St(4) = "dead"
      BY <1>1, <3>2 DEF IInv, DestroyedFromAbove
    <3>4. \A j \in 1 .. 4 : j = 1 \/ j = 2 \/ j = 3 \/ j = 4
      OBVIOUS
    <3>. QED
      BY <1>4, <2>1, <3>1, <3>2, <3>3, <3>4 DEF AllGone
  <2>2. CASE i # 1
    BY <1>1, <2>2 DEF AllGone
  <2>. QED
    BY <2>1, <2>2
<1>. QED
  BY <1>1, <1>2, <1>3, <1>5, <1>6
     DEF IInv, netVars, AllWhole, BuiltFromBelow, WildHasACause,
         AnswersNeedTheirLayers
-----------------------------------------------------------------------------
\* It holds before kernelMain builds anything.
LEMMA InitIInv == Init => IInv
<1>. SUFFICES ASSUME Init PROVE IInv
  OBVIOUS
<1>. USE OrderFacts
<1>1. TypeOK
  <2>1. inbox \in Seq(Frame)
    BY EmptySeq DEF Init
  <2>2. strays \in 0 .. MaxStrays
    BY NetStackAssumption DEF Init
  <2>. QED
    BY <2>1, <2>2, NoEntries DEF Init, TypeOK
<1>2. \A i \in 1 .. 4 : St(i) = "none"
  BY DEF Init, St
<1>3. TablesNameTheLiving
  BY DEF Init, TablesNameTheLiving, Living
<1>. QED
  BY <1>1, <1>2, <1>3
     DEF Init, IInv, BuiltFromBelow, AllWhole, DestroyedFromAbove, AllGone,
         WildHasACause, AnswersNeedTheirLayers

\* One step of kernelMain.
LEMMA MainKeeps ==
    ASSUME IInv, KernelMain
    PROVE  IInv'
<1>1. ASSUME NEW i \in 1 .. Len(Order), Register(i) PROVE IInv'
  BY <1>1, OrderFacts, RegisterKeeps
<1>2. ASSUME NEW o \in Layers, Derive(o) PROVE IInv'
  <2>1. PICK i \in 1 .. 4 : o = Order[i]
    BY OrderFacts
  <2>. DEFINE new == IF o = "icmp" THEN "ready" ELSE "raw"
  <2>2. new \in {"raw", "ready"}
    OBVIOUS
  <2>3. /\ St(i) \in {"base", "raw"} /\ ~wild /\ step = "build"
        /\ step' = step /\ registered' = registered
        /\ status' = [status EXCEPT ![Order[i]] = new]
        /\ cache' = cache /\ UNCHANGED <<announced, netVars>>
    BY <1>2, <2>1 DEF Derive, Runs, St
  <2>. HIDE DEF new
  <2>. QED
    BY <2>2, <2>3, BuildKeeps
<1>3. ASSUME NEW o \in Layers, Initialise(o) PROVE IInv'
  <2>1. PICK i \in 1 .. 4 : o = Order[i]
    BY OrderFacts
  <2>2. /\ St(i) \in {"base", "raw"} /\ ~wild /\ step = "build"
        /\ step' = step /\ registered' = registered
        /\ status' = [status EXCEPT ![Order[i]] = "ready"]
        /\ cache' = cache \/ cache' = << >>
        /\ UNCHANGED <<announced, netVars>>
    BY <1>3, <2>1 DEF Initialise, Runs, St
  <2>. QED
    BY <2>2, BuildKeeps
<1>4. CASE AllBuilt
  BY <1>4, PhaseKeeps DEF AllBuilt, Runs, netVars, IInv, TypeOK
<1>5. CASE Resolve
  BY <1>5, PhaseKeeps DEF Resolve, Runs, IInv, TypeOK
<1>6. CASE Resolved
  BY <1>6, PhaseKeeps DEF Resolved, Runs, netVars, IInv, TypeOK
<1>7. CASE Announce
  <2>1. Gateway \in Macs \cup {NoMac}
    <3>. DEFINE S == {i \in 1 .. Len(cache) : cache[i].ip = "gateway"}
    <3>1. \A i \in 1 .. Len(cache) : cache[i].mac \in Macs \cup {NoMac}
      <4>1. cache \in Seq([ip : Hosts, mac : Macs \cup {NoMac}])
        BY DEF IInv, TypeOK
      <4>2. \A i \in 1 .. Len(cache) : cache[i] \in [ip : Hosts, mac : Macs \cup {NoMac}]
        BY <4>1, ElementOfSeq
      <4>. QED
        BY <4>2
    <3>2. CASE S = {}
      BY <3>2 DEF Gateway, GetMACFromCache
    <3>3. CASE S # {}
      <4>1. \E i \in S : \A j \in S : i <= j
        <5>1. S \subseteq Nat
          BY LenProperties DEF IInv, TypeOK
        <5>. QED
          BY <3>3, <5>1, Smallest
      <4>. DEFINE first == CHOOSE i \in S : \A j \in S : i <= j
      <4>2. first \in S
        BY <4>1
      <4>. HIDE DEF first
      <4>3. Gateway = cache[first].mac
        BY <3>3 DEF Gateway, GetMACFromCache, first
      <4>. QED
        BY <3>1, <4>2, <4>3
    <3>. QED
      BY <3>2, <3>3
  <2>. QED
    BY <1>7, <2>1, PhaseKeeps DEF Announce, Runs, netVars, IInv, TypeOK
<1>8. ASSUME NEW i \in 1 .. Len(Order), Strip(i) \/ Unregister(i) PROVE IInv'
  BY <1>8, OrderFacts, StripKeeps, UnregisterKeeps
<1>. QED
  BY <1>1, <1>2, <1>3, <1>4, <1>5, <1>6, <1>7, <1>8 DEF KernelMain, Construct, Destroy

\* One step of anyone.
LEMMA NextKeeps == IInv /\ [Next]_vars => IInv'
<1>. SUFFICES ASSUME IInv, [Next]_vars PROVE IInv'
  OBVIOUS
<1>1. CASE KernelMain
  BY <1>1, MainKeeps
<1>2. CASE HandleFrame
  BY <1>2, HandleFrameKeeps
<1>3. CASE GatewayAnswers
  <2>1. PICK mac \in Macs \cup {NoMac} : Arrives(Reply("gateway", mac))
    BY <1>3 DEF GatewayAnswers
  <2>2. Reply("gateway", mac) \in Frame
    BY DEF Frame, Hosts
  <2>3. inbox' \in Seq(Frame)
    BY <2>1, <2>2, AppendProperties DEF Arrives, IInv, TypeOK
  <2>4. TypeOK'
    BY <1>3, <2>1, <2>3 DEF GatewayAnswers, Arrives, IInv, TypeOK
  <2>. QED
    BY <2>1, <2>4, ObjectsKept DEF Arrives
<1>4. CASE Lose
  <2>1. inbox' \in Seq(Frame)
    <3>1. \/ inbox' = inbox
          \/ inbox # << >> /\ inbox' = Tail(inbox)
      <4>1. /\ asked \/ inbox # << >>
            /\ asked => inbox' = inbox
            /\ ~asked => inbox' = Tail(inbox)
        BY <1>4, Zenon DEF Lose
      <4>. QED
        BY <4>1, Zenon
    <3>2. inbox \in Seq(Frame)
      BY DEF IInv, TypeOK
    <3>. QED
      BY <3>1, <3>2, HeadTailProperties
  <2>2. TypeOK'
    BY <1>4, <2>1 DEF Lose, IInv, TypeOK
  <2>. QED
    BY <1>4, <2>2, ObjectsKept DEF Lose
<1>5. ASSUME NEW f \in Frame, Stray(f) PROVE IInv'
  <2>1. inbox' \in Seq(Frame)
    BY <1>5, AppendProperties DEF Stray, Arrives, IInv, TypeOK
  <2>2. strays' \in 0 .. MaxStrays
    BY <1>5, NetStackAssumption DEF Stray, IInv, TypeOK
  <2>3. TypeOK'
    BY <1>5, <2>1, <2>2 DEF Stray, Arrives, IInv, TypeOK
  <2>. QED
    BY <1>5, <2>3, ObjectsKept DEF Stray, Arrives
<1>6. CASE UNCHANGED vars
  <2>1. TypeOK'
    BY <1>6 DEF vars, IInv, TypeOK
  <2>. QED
    BY <1>6, <2>1, ObjectsKept DEF vars
<1>7. CASE Interrupt \/ LastLook \/ Acknowledge
  <2>1. TypeOK'
    BY <1>7 DEF Interrupt, LastLook, Acknowledge, IInv, TypeOK
  <2>. QED
    BY <1>7, <2>1, ObjectsKept DEF Interrupt, LastLook, Acknowledge
<1>. QED
  BY <1>1, <1>2, <1>3, <1>4, <1>5, <1>6, <1>7 DEF Next, Handler

\* The invariant holds of every behaviour of the network block.
THEOREM Invariance == Spec => []IInv
<1>1. Init => IInv
  BY InitIInv
<1>2. IInv /\ [Next]_vars => IInv'
  BY NextKeeps
<1>. QED
  BY <1>1, <1>2, PTL DEF Spec
-----------------------------------------------------------------------------
\* Every variable keeps its type; the cache of addresses never outgrows its array
\* (arp.cpp:38).
THEOREM TypeCorrect == Spec => []TypeOK
<1>1. IInv => TypeOK
  BY DEF IInv
<1>. QED
  BY <1>1, Invariance, PTL

\* No table ever names an object that is gone (kernel.cpp:2283).
THEOREM TablesAreSound == Spec => []NoTableNamesTheDead
<1>1. IInv => NoTableNamesTheDead
  BY DEF IInv, TypeOK, TablesNameTheLiving, Living, NoTableNamesTheDead
<1>. QED
  BY <1>1, Invariance, PTL

\* A frame never reaches an object that is being destroyed or is gone: it goes wild
\* only through one whose fields are still to be set (EtherFrame.cpp:10-14), or with the
\* type 0xFFFF or the protocol 255, behind the end of a table that is set (line 52,
\* InternetProtocolV4.cpp:57).
THEOREM DestructionIsSafe == Spec => []WildHasACause
<1>1. IInv => WildHasACause
  BY DEF IInv
<1>. QED
  BY <1>1, Invariance, PTL

\* An echo request is answered only through a whole stack, an address request only
\* through the two layers it needs (EtherFrame.cpp:52-54).
THEOREM AnswersSound == Spec => []AnswersNeedTheirLayers
<1>1. IInv => AnswersNeedTheirLayers
  BY DEF IInv
<1>. QED
  BY <1>1, Invariance, PTL
=============================================================================
