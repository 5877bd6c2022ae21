---------------------------- MODULE CacheSystem -----------------------------
(***************************************************************************)
(* The caches of the processor on their ring, with the cores' bus masters  *)
(* in front of them and the memory behind them:                            *)
(*                                                                         *)
(*   rtl/cache/cache_control.sv   the MESI controller of a cache           *)
(*   rtl/cache/cache_ring.sv      its registers on the data ring           *)
(*   rtl/cache/cache_sram.sv      tags, states and data, direct mapped     *)
(*   rtl/cache/cache_mem.sv       its memory accesses                      *)
(*   rtl/cache/cache_routing.sv   cached or bypassed, and the memory port  *)
(*   rtl/cache/cache_offsets.sv   the word of a line                       *)
(*   rtl/cache/cache.sv           their composition, and the null caches   *)
(*   rtl/core/bus_master.sv       the request a core holds                 *)
(*                                                                         *)
(* with CacheToken, CacheMonitor and MemInterconnect.  A step is a clock   *)
(* cycle of all of it: the operators are the combinational signals, Tick   *)
(* is what all registers get at the clock edge.  A cycle's inputs are the  *)
(* requests that idle cores issue and whether the memory keeps its access  *)
(* waiting.                                                                *)
(*                                                                         *)
(* A line is a <<tag, index>> pair of the address; IO is any address       *)
(* outside the cached region.  Byte enables are not modelled (a store      *)
(* writes one word), and the debug port is not used.                       *)
(***************************************************************************)
EXTENDS Naturals, FiniteSets

CONSTANTS
  CPUS,        \* CONFIG_CPUS; the caches after them on the ring are null
  Line,        \* the cached lines
  IndexOf,     \* the index of each line
  Offset,      \* the words of a line
  Value,       \* what a word can hold
  Zero,        \* what the memory has in every word at reset
  IO,          \* an uncached address
  Requests,    \* what each core may ask for: a set of requests per cpu
  None

RingSize == 4    \* TTL_MAX + 1: caches on the ring, null ones included
Slots == 3       \* locks in a ring_token

Cpu == 0 .. CPUS - 1
Index == {IndexOf[l] : l \in Line}
Data == [Offset -> Value]
Request == [op : {"read", "write"}, lock : BOOLEAN, line : Line \cup {IO},
            off : Offset, data : Value]

ASSUME SystemAssumption ==
  /\ CPUS \in 1 .. RingSize
  /\ DOMAIN IndexOf = Line
  /\ DOMAIN Requests = Cpu /\ \A n \in Cpu : Requests[n] \subseteq Request
  /\ Zero \in Value
  /\ IO \notin Line

VARIABLES
  req,          \* the request each core's bus master holds, or None
  cache,        \* the registers of each cache
  pos, token,   \* the lock token (CacheToken)
  lastHold, lastSelect,   \* the memory arbiter (MemInterconnect)
  ram,          \* the data of each line in the memory
  latest        \* history: the data of each line after all stores done so far

vars == <<req, cache, pos, token, lastHold, lastSelect, ram, latest>>

-----------------------------------------------------------------------------
(***************************************************************************)
(* The registers of a cache:                                               *)
(*   state, waitReply, locked   of the controller and the token            *)
(*   hold     in_hold, the message at the cache, or None                   *)
(*   stall    stall_data, the message that could not leave, or None        *)
(*   sram     per index: tag (as a line), state and data                   *)
(*   rd       the SRAM's output latch; kept where the controller uses it   *)
(*   mem      the access of cache_mem under way                            *)
(*   route    the state of cache_routing                                   *)
(*   monitor  see CacheMonitor                                             *)
(* The data of an INVALID entry, of a message that is no reply and of a    *)
(* memory read are not kept: nothing depends on them.                      *)
(***************************************************************************)
Mon == INSTANCE CacheMonitor

Owned == {"EXCLUSIVE", "MODIFIED"}
Valid == Owned \cup {"SHARED"}
Entry == [line : Line \cup {None}, state : {"INVALID"}, data : {None}]
         \cup [line : Line, state : Valid, data : Data]
Message == [ttl : 0 .. RingSize - 1, read : BOOLEAN, inval : BOOLEAN, line : Line,
            reply : {FALSE}, data : {None}]
           \cup [ttl : 0 .. RingSize - 1, read : {TRUE}, inval : BOOLEAN, line : Line,
                 reply : {TRUE}, data : Data]
Access == [op : {"none"}, line : {None}, data : {None}]
          \cup [op : {"read"}, line : Line, data : {None}]
          \cup [op : {"write"}, line : Line, data : Data]

Cache == [state : {"ACCEPT", "CORE", "SNOOP", "REPLY"},
          waitReply : BOOLEAN, locked : BOOLEAN,
          hold : Message \cup {None}, stall : Message \cup {None},
          sram : [Index -> Entry], rd : Entry \cup {None},
          mem : Access, route : {"IDLE", "CACHE", "BYPASS"}, monitor : Mon!Monitor]

\* What the controller writes: without data, the state of an entry only.
Write == [line : Line, state : Valid \cup {"INVALID"}, data : Data \cup {None}]

\* `Nothing' is told from whatever it is nothing of.
ASSUME NoneAssumption ==
  /\ None \notin Line /\ None \notin Data
  /\ None \notin Write /\ None \notin BOOLEAN \X BOOLEAN

NoAccess == [op |-> "none", line |-> None, data |-> None]
Empty == [line |-> None, state |-> "INVALID", data |-> None]

ResetCache ==
  [state |-> "ACCEPT", waitReply |-> FALSE, locked |-> FALSE, hold |-> None, stall |-> None,
   sram |-> [i \in Index |-> Empty], rd |-> None, mem |-> NoAccess, route |-> "IDLE",
   monitor |-> Mon!ResetMonitor]

\* core_read or core_write is up, for a cached line: what the cache sees.
Asks(n) == req[n] # None /\ req[n].line # IO
CoreLine(n) == IF Asks(n) THEN req[n].line ELSE None

-----------------------------------------------------------------------------
(***************************************************************************)
(* The memory side: cache_routing.sv, cache_mem.sv and the arbiter.        *)
(***************************************************************************)
Arbiter == INSTANCE MemInterconnect
             WITH Ports <- RingSize, busy <- {n \in Cpu : cache[n].route # "IDLE"}

\* mem_waitrequest of cache n.
PortWaits(n, wait) == Arbiter!Waits(n, wait)

\* cache_mem_waitrequest: a cache's access gets through only in CACHE.
MemWaits(n, wait) == cache[n].route # "CACHE" \/ PortWaits(n, wait)

MemEnd(n, wait) == cache[n].mem.op # "none" /\ ~MemWaits(n, wait)
MemReadEnd(n, wait) == cache[n].mem.op = "read" /\ ~MemWaits(n, wait)

\* The uncached request of core n is answered.
BypassEnd(n, wait) == cache[n].route = "BYPASS" /\ ~PortWaits(n, wait)

NextRoute(n, wait) ==
  IF cache[n].route # "IDLE" THEN IF PortWaits(n, wait) THEN cache[n].route ELSE "IDLE"
  ELSE IF cache[n].mem.op # "none" THEN "CACHE"
  ELSE IF req[n] # None /\ req[n].line = IO THEN "BYPASS"
  ELSE "IDLE"

-----------------------------------------------------------------------------
(***************************************************************************)
(* The controller, cache_control.sv.  What it wants in a cycle:            *)
(*   send       <<send_read, send_inval>> of a message, or None            *)
(*   write      the entry to write (no data: the state only), or None      *)
(*   mem        the memory access to begin, if any                         *)
(*   monitor    "acquire", "release" or "none"                             *)
(*   done       the core's request ends (~core_waitrequest)                *)
(*   endReply   the cache's own message is back for good                   *)
(*   setReply   the message goes on as a reply with this cache's data      *)
(*   ready      in_data_ready: the message at the cache is taken           *)
(*   lockLine   the line is locked in the token                            *)
(***************************************************************************)
Token == INSTANCE CacheToken
           WITH N <- CPUS,
                line <- [n \in Cpu |-> CoreLine(n)],
                locked <- [n \in Cpu |-> cache[n].locked],
                phase <- [n \in Cpu |-> IF cache[n].state = "CORE" THEN "CORE" ELSE "ACCEPT"],
                waitReply <- [n \in Cpu |-> cache[n].waitReply]

LastHop(m) == m.ttl = 0

\* A message that has been answered is of no interest to anyone else.
AcceptUnanswered(n) ==
  LET m == cache[n].hold IN m # None /\ ~LastHop(m) /\ ~m.reply

\* Takes a message of its own that has come round for one to snoop.
AcceptOwn(n) ==
  LET m == cache[n].hold IN m # None /\ (m.inval \/ ~m.reply)

\* accept_snoop
AcceptSnoop(n) ==
  LET m == cache[n].hold IN m # None /\ ~LastHop(m) /\ (m.inval \/ ~m.reply)

Quiet == [send |-> None, write |-> None, mem |-> "none", monitor |-> "none",
          done |-> FALSE, endReply |-> FALSE, setReply |-> FALSE, ready |-> FALSE,
          lockLine |-> FALSE]

\* A message that has come round and asked for no data is finished here; the
\* answer to another cache's read passes by.
InAccept(n) ==
  LET m == cache[n].hold
      finished == m # None /\ LastHop(m) /\ ~m.read
      passes == m # None /\ ~LastHop(m) /\ m.reply /\ ~m.inval
  IN [Quiet EXCEPT !.endReply = finished, !.ready = m = None \/ finished \/ passes]

\* core_data_wr, or monitor_update if the store is a strex.
Stored(n) ==
  IF req[n].lock THEN Mon!Update(cache[n].monitor, req[n].off, req[n].data)
                 ELSE [cache[n].rd.data EXCEPT ![req[n].off] = req[n].data]

\* monitor_commit
Commits(n) ==
  ~req[n].lock \/ Mon!Commit(cache[n].monitor, req[n].line, req[n].off, cache[n].rd.data)

InCore(n) ==
  LET r == req[n]
      e == cache[n].rd
      write == r.op = "write"
      q == [Quiet EXCEPT !.ready = cache[n].hold = None]
  IN CASE e.state # "INVALID" /\ e.line # r.line ->          \* replace
            [q EXCEPT !.write = [line |-> r.line, state |-> "INVALID", data |-> None],
                      !.mem = IF e.state = "MODIFIED" THEN "write" ELSE "none"]
       [] e.state = "INVALID" ->
            [q EXCEPT !.send = <<TRUE, write>>]
       [] e.state = "SHARED" /\ e.line = r.line /\ write ->
            [q EXCEPT !.send = <<FALSE, TRUE>>,
                      !.write = [line |-> r.line, state |-> "EXCLUSIVE", data |-> None]]
       [] e.state # "INVALID" /\ e.line = r.line /\ ~write ->
            [q EXCEPT !.done = TRUE, !.monitor = IF r.lock THEN "acquire" ELSE "none"]
       [] e.state \in Owned /\ e.line = r.line /\ write ->
            [q EXCEPT !.done = TRUE, !.monitor = IF r.lock THEN "release" ELSE "none",
                      !.write = IF Commits(n)
                                  THEN [line |-> r.line, state |-> "MODIFIED", data |-> Stored(n)]
                                  ELSE None]

\* A cache that answers a read keeps its EXCLUSIVE or MODIFIED copy as it is.
SnoopKeeps(n) ==
  LET m == cache[n].hold
      hit == cache[n].rd.line = m.line
      asked == hit /\ m.read /\ cache[n].rd.state # "INVALID"
  IN [Quiet EXCEPT
        !.ready = TRUE, !.setReply = asked,
        !.mem = IF asked /\ cache[n].rd.state = "MODIFIED" THEN "write" ELSE "none",
        !.write = IF hit /\ m.inval THEN [line |-> m.line, state |-> "INVALID", data |-> None]
                                    ELSE None]

InSnoop(n) ==
  LET m == cache[n].hold
      e == cache[n].rd
      hit == e.line = m.line
      asked == hit /\ m.read /\ e.state # "INVALID"
      to(s) == [line |-> m.line, state |-> s, data |-> None]
  IN [Quiet EXCEPT
        !.ready = TRUE,
        !.setReply = asked,
        !.mem = IF asked /\ e.state = "MODIFIED" THEN "write" ELSE "none",
        !.write = CASE hit /\ m.inval -> to("INVALID")
                    [] asked /\ ~m.inval /\ e.state \in Owned -> to("SHARED")
                    [] OTHER -> None]

InReply(n) ==
  LET m == cache[n].hold IN
  IF m.reply
    THEN [Quiet EXCEPT
            !.ready = TRUE, !.endReply = TRUE,
            !.write = [line |-> req[n].line, data |-> m.data,
                       state |-> IF m.inval THEN "EXCLUSIVE" ELSE "SHARED"]]
    ELSE [Quiet EXCEPT !.ready = TRUE, !.mem = "read"]

Wanted(n) ==
  CASE cache[n].state = "ACCEPT" -> InAccept(n)
    [] cache[n].state = "CORE"   -> InCore(n)
    [] cache[n].state = "SNOOP"  -> InSnoop(n)
    [] cache[n].state = "REPLY"  -> InReply(n)

\* Sends whenever the core wants it.
RetryWithoutToken(n, w, wait) ==
  \/ MemReadEnd(n, wait) /\ w.write # None
  \/ cache[n].mem.op # "none" /\ MemWaits(n, wait) /\ w.mem # "none"

\* Begins a memory access over the one that is still under way.
RetryOverMem(n, w, wait) ==
  \/ MemReadEnd(n, wait) /\ w.write # None
  \/ w.send # None /\ ~Token!MaySend(n) /\ ~cache[n].locked

\* retry: the SRAM is taken by a memory read that ends, the memory port is
\* taken by the previous access, or the line is not this cache's to send for.
Retry(n, w, wait) ==
  \/ MemReadEnd(n, wait) /\ w.write # None
  \/ cache[n].mem.op # "none" /\ MemWaits(n, wait) /\ w.mem # "none"
  \/ w.send # None /\ ~Token!MaySend(n) /\ ~cache[n].locked

\* The signals of cache n.  A retry gives up all but endReply and setReply;
\* the line is locked whether the message is sent or not.
Signals(n, wait) ==
  LET w == Wanted(n)
      kept == IF Retry(n, w, wait)
                THEN [Quiet EXCEPT !.endReply = w.endReply, !.setReply = w.setReply,
                                   !.ready = cache[n].hold = None]
                ELSE w
  IN [kept EXCEPT !.lockLine = w.send # None]

\* next_state.  A message that cannot leave keeps the controller in ACCEPT.
NextState(n, outReady) ==
  LET c == cache[n]
      m == c.hold
  IN IF c.state # "ACCEPT" \/ (c.stall # None /\ ~outReady) THEN "ACCEPT"
     ELSE IF AcceptSnoop(n) THEN "SNOOP"
     ELSE IF m # None /\ LastHop(m) /\ m.read THEN "REPLY"
     ELSE IF Asks(n) /\ ~c.waitReply /\ (~c.locked \/ Token!MaySend(n)) THEN "CORE"
     ELSE "ACCEPT"

-----------------------------------------------------------------------------
(***************************************************************************)
(* The data ring: cache_ring.sv, and null_ring of cache.sv.                *)
(***************************************************************************)
NextCpu(n) == Token!NextNode(n)
PrevCpu(n) == IF n = 0 THEN CPUS - 1 ELSE n - 1

\* ttl is two bits wide.
Aged(m, hops) == [m EXCEPT !.ttl = (m.ttl + RingSize - hops) % RingSize]

\* Forgets a message that could not leave at once.
OutUnstalled(n, s) ==
  LET m == cache[n].hold
  IN IF s.send # None
       THEN [ttl |-> RingSize - 1, read |-> s.send[1], inval |-> s.send[2],
             reply |-> FALSE, line |-> req[n].line, data |-> None]
     ELSE IF m # None /\ ~LastHop(m) /\ s.ready
       THEN IF s.setReply THEN [Aged(m, 1) EXCEPT !.reply = TRUE, !.data = cache[n].rd.data]
                          ELSE Aged(m, 1)
     ELSE None

\* out_data, or None.
Out(n, s) ==
  LET c == cache[n]
      m == c.hold
  IN IF c.stall # None THEN c.stall
     ELSE IF s.send # None
       THEN [ttl |-> RingSize - 1, read |-> s.send[1], inval |-> s.send[2],
             reply |-> FALSE, line |-> req[n].line, data |-> None]
     ELSE IF m # None /\ ~LastHop(m) /\ s.ready
       THEN IF s.setReply THEN [Aged(m, 1) EXCEPT !.reply = TRUE, !.data = c.rd.data]
                          ELSE Aged(m, 1)
     ELSE None

\* in_data: the null caches behind the last one only count the ttl down.
In(n, out) ==
  IF out = None \/ n # 0 THEN out ELSE Aged(out, RingSize - CPUS)

-----------------------------------------------------------------------------
(***************************************************************************)
(* A clock edge.                                                           *)
(***************************************************************************)

\* The entry the SRAM gets; the end of a memory read overrides the controller.
SramWrite(n, s, wait) ==
  IF MemReadEnd(n, wait)
    THEN [line |-> cache[n].mem.line, state |-> "EXCLUSIVE", data |-> ram[cache[n].mem.line]]
    ELSE s.write

\* State-only writes leave the tag and the data as they were.
NextSram(n, w) ==
  IF w = None THEN cache[n].sram
  ELSE [cache[n].sram EXCEPT
          ![IndexOf[w.line]] =
             [line |-> IF w.data = None THEN @.line ELSE w.line,
              state |-> w.state,
              data |-> IF w.state = "INVALID" \/ w.data # None THEN w.data ELSE @.data]]

\* The SRAM is read before it is written.
NextRd(n, next) ==
  CASE next = "CORE"  -> cache[n].sram[IndexOf[req[n].line]]
    [] next = "SNOOP" -> cache[n].sram[IndexOf[cache[n].hold.line]]
    [] OTHER -> None

NextMem(n, s, wait) ==
  CASE s.mem = "write" -> [op |-> "write", line |-> cache[n].rd.line, data |-> cache[n].rd.data]
    [] s.mem = "read" -> [op |-> "read", line |-> req[n].line, data |-> None]
    [] s.mem = "none" -> IF MemEnd(n, wait) THEN NoAccess ELSE cache[n].mem

NextMonitor(n, s) ==
  LET m == cache[n].monitor
      r == req[n]
  IN CASE s.monitor = "acquire" -> Mon!Acquire(m, r.line, r.off, cache[n].rd.data)
       [] s.monitor = "release" -> Mon!Release(m, r.line, r.off, r.data)
       [] s.monitor = "none" -> m

\* Only a cache that did send locks its line.
LockIfSent(n, s) == ~s.done /\ (s.send # None \/ cache[n].locked)

\* locked, of cache_token.sv: until the core's request is done.
NextLocked(n, s) == ~s.done /\ (s.lockLine \/ cache[n].locked)

NextCache(n, s, wait, in, outReady, out) ==
  LET c == cache[n]
      next == NextState(n, outReady)
  IN [state |-> next,
      waitReply |-> ~(s.endReply \/ MemReadEnd(n, wait)) /\ (s.send # None \/ c.waitReply),
      locked |-> NextLocked(n, s),
      hold |-> IF s.ready THEN in ELSE c.hold,
      stall |-> IF outReady THEN None ELSE out,
      sram |-> NextSram(n, SramWrite(n, s, wait)),
      rd |-> NextRd(n, next),
      mem |-> NextMem(n, s, wait),
      route |-> NextRoute(n, wait),
      monitor |-> NextMonitor(n, s)]

\* What the memory has after the cycle: the selected write, if it is accepted.
NextRam(wait) ==
  [l \in Line |->
     LET writers == {n \in Cpu : cache[n].mem.op = "write" /\ cache[n].mem.line = l
                                 /\ MemEnd(n, wait)}
     IN IF writers = {} THEN ram[l] ELSE cache[CHOOSE n \in writers : TRUE].mem.data]

\* Requests that end in this cycle, and stores among them that are performed.
Ends(n, s, wait) == s.done \/ BypassEnd(n, wait)
Stores(n, s) == s.done /\ s.write # None

Step(wait, issue, sig) ==
  LET outs == [n \in Cpu |-> Out(n, sig[n])]
  IN /\ req' = [n \in Cpu |-> IF n \in DOMAIN issue THEN issue[n] ELSE req[n]]
     /\ cache' = [n \in Cpu |->
                    NextCache(n, sig[n], wait, In(n, outs[PrevCpu(n)]),
                              sig[NextCpu(n)].ready, outs[n])]
     /\ pos' = NextCpu(pos)
     /\ token' = [k \in 0 .. Slots - 1 |->
                    LET h == NextCpu(pos) IN
                    IF k = 0 THEN Token!Post(h, sig[h].send # None, sig[h].done)
                             ELSE token[k - 1]]
     /\ Arbiter!Arbitrate(wait)
     /\ ram' = NextRam(wait)
     /\ latest' = [l \in Line |->
                     LET w == {n \in Cpu : Stores(n, sig[n]) /\ req[n].line = l}
                     IN IF w = {} THEN latest[l] ELSE sig[CHOOSE n \in w : TRUE].write.data]

Cycle(wait) ==
  \E sig \in {[n \in Cpu |-> Signals(n, wait)]} :
  LET free == {n \in Cpu : req[n] = None \/ Ends(n, sig[n], wait)}
  IN \E issue \in [free -> UNION {Requests[n] : n \in free} \cup {None}] :
       /\ \A n \in free : issue[n] \in Requests[n] \cup {None}
       /\ Step(wait, issue, sig)

\* The memory takes or answers the access that is at its port, or there is none.
Busy == {n \in Cpu : cache[n].route # "IDLE"} # {}
MemAnswers == Cycle(FALSE)
MemDelays == Busy /\ Cycle(TRUE)

Tick == MemAnswers \/ MemDelays

Init ==
  /\ req = [n \in Cpu |-> None]
  /\ cache = [n \in Cpu |-> ResetCache]
  /\ pos = Token!ResetHolder /\ token = [k \in 0 .. Slots - 1 |-> None]
  /\ Arbiter!ResetArbiter
  /\ ram = [l \in Line |-> [o \in Offset |-> Zero]]
  /\ latest = ram

Spec == Init /\ [][Tick]_vars

\* The clock runs, and the memory does not keep an access waiting for ever.
FairSpec == Spec /\ WF_vars(Tick) /\ WF_vars(Busy /\ MemAnswers)

-----------------------------------------------------------------------------
(***************************************************************************)
(* Properties.                                                             *)
(***************************************************************************)

TypeOK ==
  /\ req \in [Cpu -> Request \cup {None}]
  /\ cache \in [Cpu -> Cache]
  /\ Token!TypeOK
  /\ lastHold \in BOOLEAN /\ lastSelect \in 0 .. RingSize - 1
  /\ ram \in [Line -> Data] /\ latest \in [Line -> Data]

\* The messages on the ring whose ttl takes them to cache d, with their place.
Messages(d) ==
  {<<n, "hold", cache[n].hold>> :
     n \in {n \in Cpu : cache[n].hold # None /\ (n + cache[n].hold.ttl) % RingSize = d}}
  \cup
  {<<n, "stall", cache[n].stall>> :
     n \in {n \in Cpu : cache[n].stall # None /\ (n + 1 + cache[n].stall.ttl) % RingSize = d}}

HasCopy(n, l, states) ==
  LET e == cache[n].sram[IndexOf[l]] IN e.line = l /\ e.state \in states

\* MESI: a cache with an EXCLUSIVE or MODIFIED copy has the only one.  The
\* controller writes EXCLUSIVE before the others have been told, so while it
\* waits for that a cache may be EXCLUSIVE beside SHARED ones; it must not be
\* MODIFIED, nobody else may be EXCLUSIVE, and all it has on the ring tells
\* them to give their copies up.
SingleOwner ==
  \A n, m \in Cpu, l \in Line :
    n # m /\ HasCopy(n, l, Owned) /\ HasCopy(m, l, Valid) =>
      /\ HasCopy(n, l, {"EXCLUSIVE"}) /\ HasCopy(m, l, {"SHARED"})
      /\ cache[n].waitReply /\ CoreLine(n) = l
      /\ \A x \in Messages(n) : x[3].line = l /\ x[3].inval

\* Every copy that a core can still load from has the data of the last store.
CopiesCurrent ==
  \A n \in Cpu, l \in Line :
    HasCopy(n, l, Valid) => cache[n].sram[IndexOf[l]].data = latest[l]

\* No store gets lost between a cache and the memory: what the memory has of a
\* line is out of date only while a cache has the line MODIFIED, or the last
\* store is on its way to the memory.  (dump_coherent, in
\* tb/top/conspiracion/conspiracion.cpp, reads the processor's memory so.)
MemoryCurrent ==
  \A l \in Line :
    \/ ram[l] = latest[l]
    \/ \E n \in Cpu : HasCopy(n, l, {"MODIFIED"})
    \/ \E n \in Cpu : cache[n].mem = [op |-> "write", line |-> l, data |-> latest[l]]

\* The request of a cache is never lost, nor answered twice: as long as it waits
\* there is exactly one message that goes back to it, or one memory read.
NoLostRequest ==
  \A n \in Cpu :
    LET reads == IF cache[n].mem.op = "read" THEN 1 ELSE 0
    IN Cardinality(Messages(n)) + reads = IF cache[n].waitReply THEN 1 ELSE 0

\* The core's cached request ends in the next cycle.
Completes(n) == cache[n].state = "CORE" /\ InCore(n).done

\* A load gives the core the word of the last store that was done.
ReadsLatest ==
  \A n \in Cpu :
    Completes(n) /\ req[n].op = "read"
      => cache[n].rd.data[req[n].off] = latest[req[n].line][req[n].off]

\* Every request to a cached line is finished some day, however hard the other
\* cores fight for the line ("garantiza avance del sistema completo").
Progress == \A n \in Cpu : []<>(~Asks(n) \/ Completes(n))

\* The caches use the ring token as CacheToken says.
TokenSpec == Token!Spec

(***************************************************************************)
(* To the cores the caches and the memory are one CoherentMemory: its      *)
(* memory is `latest', and an answer is shown in the CORE cycle that ends  *)
(* the request.                                                            *)
(***************************************************************************)
Shown(n) ==
  IF ~Completes(n) THEN None
  ELSE IF req[n].op = "read" THEN [ok |-> TRUE, word |-> cache[n].rd.data[req[n].off]]
  ELSE [ok |-> Commits(n), word |-> None]

LinkOf(m) ==
  [line |-> m.line, words |-> [o \in Offset |-> IF o \in m.mask THEN m.rd[o] ELSE None]]

Memory == INSTANCE CoherentMemory
            WITH mem <- latest,
                 req <- [n \in Cpu |-> IF Asks(n) THEN req[n] ELSE None],
                 answer <- [n \in Cpu |-> Shown(n)],
                 link <- [n \in Cpu |-> LinkOf(cache[n].monitor)]

\* The caches keep the promise of CoherentMemory.
Coherent == Memory!Spec
=============================================================================
