-------------------------- MODULE CacheSystem_proof --------------------------
(***************************************************************************)
(* Proofs about CacheSystem, for any number of caches on the ring and any  *)
(* lines, words and values: its registers keep their types (TypeCorrect),  *)
(* the lock token sees the events that CacheToken specifies                *)
(* (TokenRefinement), and no request is under way twice (NeverTwice).      *)
(*                                                                         *)
(* What makes the types inductive is the way of a request: at most one is  *)
(* under way for each cache (OneEach), it is about the line its core asked *)
(* for (About), and the cache waits for it (HomeWaits).  The lemmas follow *)
(* a cycle: what each state of a controller wants and what becomes of it   *)
(* (Signals), where a message comes from (Flow, Kept, OriginsDiffer)       *)
(* and what the SRAM gets (Writes, Entries).                               *)
(***************************************************************************)
EXTENDS CacheSystem, FiniteSetTheorems, TLAPS

\* The signals of a cache.
Fields == {"send", "write", "mem", "monitor", "done", "endReply", "setReply", "ready", "lockLine"}

\* A cache that asks for nothing: Quiet, field by field.
LEMMA QuietFields ==
  /\ DOMAIN Quiet = Fields
  /\ Quiet.send = None /\ Quiet.write = None /\ Quiet.mem = "none" /\ Quiet.monitor = "none"
  /\ ~Quiet.done /\ ~Quiet.endReply /\ ~Quiet.setReply /\ ~Quiet.ready /\ ~Quiet.lockLine
BY Zenon DEF Quiet, Fields

\* What a cache does is what its state wants, or, in a retry, nothing but the
\* end or the mark of an answer.
LEMMA SignalsOf ==
  ASSUME NEW n, NEW wait, NEW w, w = Wanted(n), DOMAIN w = Fields, NEW s, s = Signals(n, wait)
  PROVE  /\ s.lockLine = (w.send # None)
         /\ s.endReply = w.endReply /\ s.setReply = w.setReply
         /\ Retry(n, w, wait) => /\ s.send = None /\ s.write = None /\ s.mem = "none"
                                 /\ s.monitor = "none" /\ ~s.done
                                 /\ s.ready = (cache[n].hold = None)
         /\ ~Retry(n, w, wait) => /\ s.send = w.send /\ s.write = w.write /\ s.mem = w.mem
                                  /\ s.monitor = w.monitor /\ s.done = w.done
                                  /\ s.ready = w.ready
<1> DEFINE given == [Quiet EXCEPT !.endReply = w.endReply, !.setReply = w.setReply,
                                   !.ready = cache[n].hold = None]
           kept == IF Retry(n, w, wait) THEN given ELSE w
<1>1. s = [kept EXCEPT !.lockLine = w.send # None]
  BY DEF Signals
<1>2. /\ DOMAIN given = Fields /\ given.endReply = w.endReply /\ given.setReply = w.setReply
      /\ given.ready = (cache[n].hold = None)
      /\ given.send = None /\ given.write = None /\ given.mem = "none" /\ given.monitor = "none"
      /\ ~given.done
  BY QuietFields, Zenon DEF Fields
<1> HIDE DEF given
<1>3. DOMAIN kept = Fields
  BY <1>2
<1>4. CASE Retry(n, w, wait)
  <2>1. s = [given EXCEPT !.lockLine = w.send # None]
    BY <1>1, <1>4
  <2>2. /\ s.lockLine = (w.send # None) /\ s.endReply = given.endReply /\ s.setReply = given.setReply
        /\ s.ready = given.ready /\ s.send = given.send /\ s.write = given.write
        /\ s.mem = given.mem /\ s.monitor = given.monitor /\ s.done = given.done
    BY <2>1, <1>2, Zenon DEF Fields
  <2> QED BY <2>2, <1>2, <1>4, Zenon
<1>5. CASE ~Retry(n, w, wait)
  <2>1. s = [w EXCEPT !.lockLine = w.send # None]
    BY <1>1, <1>5
  <2>2. /\ s.lockLine = (w.send # None) /\ s.endReply = w.endReply /\ s.setReply = w.setReply
        /\ s.ready = w.ready /\ s.send = w.send /\ s.write = w.write
        /\ s.mem = w.mem /\ s.monitor = w.monitor /\ s.done = w.done
    BY <2>1, Zenon DEF Fields
  <2> QED BY <2>2, <1>5, Zenon
<1> QED BY <1>4, <1>5

\* An invalidation has come round to the cache that sent it.
Finished(n) == cache[n].hold # None /\ LastHop(cache[n].hold) /\ ~cache[n].hold.read

\* An answer to a load goes on to the cache that asked for it.
PassesBy(n) ==
  /\ cache[n].hold # None /\ ~LastHop(cache[n].hold)
  /\ cache[n].hold.reply /\ ~cache[n].hold.inval

\* What a cache wants in ACCEPT.
LEMMA AcceptWanted ==
  ASSUME NEW n, cache[n].state = "ACCEPT", NEW w, w = Wanted(n)
  PROVE  /\ DOMAIN w = Fields
         /\ w.send = None /\ w.write = None /\ w.mem = "none" /\ w.monitor = "none"
         /\ ~w.done /\ ~w.setReply /\ w.endReply = Finished(n)
         /\ w.ready = (cache[n].hold = None \/ Finished(n) \/ PassesBy(n))
<1>1. w = [Quiet EXCEPT !.endReply = Finished(n),
                        !.ready = cache[n].hold = None \/ Finished(n) \/ PassesBy(n)]
  BY DEF Wanted, InAccept, Finished, PassesBy
<1> DEFINE e == Finished(n)
           r == cache[n].hold = None \/ Finished(n) \/ PassesBy(n)
<1> HIDE DEF e, r
<1>2. w = [Quiet EXCEPT !.endReply = e, !.ready = r]
  BY <1>1 DEF e, r
<1>3. /\ DOMAIN w = Fields /\ w.send = Quiet.send /\ w.write = Quiet.write /\ w.mem = Quiet.mem
      /\ w.monitor = Quiet.monitor /\ w.done = Quiet.done /\ w.setReply = Quiet.setReply
      /\ w.endReply = e /\ w.ready = r
  BY <1>2, QuietFields, Zenon DEF Fields
<1> QED BY <1>3, QuietFields, Zenon DEF e, r

-----------------------------------------------------------------------------
\* No effect on anything but the ring.
Nothing(w) == w.send = None /\ w.write = None /\ w.mem = "none" /\ w.monitor = "none" /\ ~w.done

\* A write of the state alone.
StateOnly(l, st) == [line |-> l, state |-> st, data |-> None]

\* The five cases of CORE: the line has to make room, is not there, is there but
\* shared, or serves the load or the store.
Replaces(n, w) ==
  /\ cache[n].rd.state # "INVALID" /\ cache[n].rd.line # req[n].line
  /\ w.write = StateOnly(req[n].line, "INVALID")
  /\ w.mem = IF cache[n].rd.state = "MODIFIED" THEN "write" ELSE "none"
  /\ w.send = None /\ w.monitor = "none" /\ ~w.done
Misses(n, w) ==
  /\ cache[n].rd.state = "INVALID" /\ w.send = <<TRUE, req[n].op = "write">>
  /\ w.write = None /\ w.mem = "none" /\ w.monitor = "none" /\ ~w.done
Upgrades(n, w) ==
  /\ cache[n].rd.state = "SHARED" /\ cache[n].rd.line = req[n].line /\ req[n].op = "write"
  /\ w.send = <<FALSE, TRUE>> /\ w.write = StateOnly(req[n].line, "EXCLUSIVE")
  /\ w.mem = "none" /\ w.monitor = "none" /\ ~w.done
LoadDone(n, w) ==
  /\ cache[n].rd.state # "INVALID" /\ cache[n].rd.line = req[n].line /\ req[n].op = "read"
  /\ w.monitor = IF req[n].lock THEN "acquire" ELSE "none"
  /\ w.send = None /\ w.write = None /\ w.mem = "none" /\ w.done
StoreDone(n, w) ==
  /\ cache[n].rd.state \in Owned /\ cache[n].rd.line = req[n].line /\ req[n].op = "write"
  /\ w.monitor = IF req[n].lock THEN "release" ELSE "none"
  /\ w.write = IF Commits(n)
                 THEN [line |-> req[n].line, state |-> "MODIFIED", data |-> Stored(n)] ELSE None
  /\ w.send = None /\ w.mem = "none" /\ w.done

Serves(n, w) ==
  Replaces(n, w) \/ Misses(n, w) \/ Upgrades(n, w) \/ LoadDone(n, w) \/ StoreDone(n, w)

\* What a cache wants in CORE is one of the five.
LEMMA CoreWanted ==
  ASSUME NEW n, cache[n].state = "CORE", NEW w, w = Wanted(n),
         cache[n].rd \in Entry, req[n] \in Request
  PROVE  /\ DOMAIN w = Fields /\ ~w.endReply /\ ~w.setReply /\ w.ready = (cache[n].hold = None)
         /\ Serves(n, w)
<1> DEFINE r == req[n]
           e == cache[n].rd
           idle == cache[n].hold = None
           q == [Quiet EXCEPT !.ready = cache[n].hold = None]
<1>1. w = InCore(n)
  BY DEF Wanted
<1>2. /\ DOMAIN q = Fields /\ q.ready = idle
      /\ q.send = None /\ q.write = None /\ q.mem = "none" /\ q.monitor = "none"
      /\ ~q.done /\ ~q.endReply /\ ~q.setReply /\ ~q.lockLine
  BY QuietFields, Zenon DEF Fields
<1>3. /\ e.state \in {"INVALID", "SHARED", "EXCLUSIVE", "MODIFIED"} /\ r.op \in {"read", "write"}
  BY DEF Entry, Valid, Owned, Request
<1>4. CASE e.state # "INVALID" /\ e.line # r.line
  <2> DEFINE x == StateOnly(r.line, "INVALID")
             y == IF e.state = "MODIFIED" THEN "write" ELSE "none"
  <2>1. w = [q EXCEPT !.write = x, !.mem = y]
    BY <1>1, <1>4 DEF InCore, StateOnly
  <2> HIDE DEF x, y, q
  <2>2. /\ DOMAIN w = DOMAIN q /\ w.write = x /\ w.mem = y /\ w.ready = q.ready /\ w.send = q.send
        /\ w.monitor = q.monitor /\ w.done = q.done /\ w.endReply = q.endReply
        /\ w.setReply = q.setReply
    BY <2>1, <1>2, Zenon DEF Fields
  <2>3. Replaces(n, w)
    BY <2>2, <1>2, <1>4, Zenon DEF Replaces, x, y
  <2> QED BY <2>2, <2>3, <1>2, Zenon DEF Serves, idle
<1>5. CASE e.state = "INVALID"
  <2> DEFINE x == <<TRUE, r.op = "write">>
  <2>1. w = [q EXCEPT !.send = x]
    BY <1>1, <1>5 DEF InCore, Owned
  <2> HIDE DEF x, q
  <2>2. /\ DOMAIN w = DOMAIN q /\ w.write = q.write /\ w.mem = q.mem /\ w.ready = q.ready
        /\ w.send = x /\ w.monitor = q.monitor /\ w.done = q.done /\ w.endReply = q.endReply
        /\ w.setReply = q.setReply
    BY <2>1, <1>2, Zenon DEF Fields
  <2>3. Misses(n, w)
    BY <2>2, <1>2, <1>5, Zenon DEF Misses, x
  <2> QED BY <2>2, <2>3, <1>2, Zenon DEF Serves, idle
<1>6. CASE e.state = "SHARED" /\ e.line = r.line /\ r.op = "write"
  <2> DEFINE x == <<FALSE, TRUE>>
             y == StateOnly(r.line, "EXCLUSIVE")
  <2>1. w = [q EXCEPT !.send = x, !.write = y]
    BY <1>1, <1>6 DEF InCore, StateOnly, Owned
  <2> HIDE DEF x, y, q
  <2>2. /\ DOMAIN w = DOMAIN q /\ w.write = y /\ w.mem = q.mem /\ w.ready = q.ready /\ w.send = x
        /\ w.monitor = q.monitor /\ w.done = q.done /\ w.endReply = q.endReply
        /\ w.setReply = q.setReply
    BY <2>1, <1>2, Zenon DEF Fields
  <2>3. Upgrades(n, w)
    BY <2>2, <1>2, <1>6, Zenon DEF Upgrades, x, y
  <2> QED BY <2>2, <2>3, <1>2, Zenon DEF Serves, idle
<1>7. CASE e.state # "INVALID" /\ e.line = r.line /\ r.op # "write"
  <2> DEFINE x == TRUE
             y == IF r.lock THEN "acquire" ELSE "none"
  <2>1. w = [q EXCEPT !.done = x, !.monitor = y]
    BY <1>1, <1>3, <1>7 DEF InCore
  <2> HIDE DEF x, y, q
  <2>2. /\ DOMAIN w = DOMAIN q /\ w.write = q.write /\ w.mem = q.mem /\ w.ready = q.ready
        /\ w.send = q.send /\ w.monitor = y /\ w.done = x /\ w.endReply = q.endReply
        /\ w.setReply = q.setReply
    BY <2>1, <1>2, Zenon DEF Fields
  <2>3. r.op = "read"
    BY <1>3, <1>7
  <2>4. LoadDone(n, w)
    BY <2>2, <2>3, <1>2, <1>7, Zenon DEF LoadDone, x, y
  <2> QED BY <2>2, <2>4, <1>2, Zenon DEF Serves, idle
<1>8. CASE e.state \in Owned /\ e.line = r.line /\ r.op = "write"
  <2> DEFINE x == TRUE
             y == IF r.lock THEN "release" ELSE "none"
             z == IF Commits(n) THEN [line |-> r.line, state |-> "MODIFIED", data |-> Stored(n)]
                                ELSE None
  <2>1. w = [q EXCEPT !.done = x, !.monitor = y, !.write = z]
    BY <1>1, <1>3, <1>8 DEF InCore, Owned
  <2> HIDE DEF x, y, z, q
  <2>2. /\ DOMAIN w = DOMAIN q /\ w.write = z /\ w.mem = q.mem /\ w.ready = q.ready
        /\ w.send = q.send /\ w.monitor = y /\ w.done = x /\ w.endReply = q.endReply
        /\ w.setReply = q.setReply
    BY <2>1, <1>2, Zenon DEF Fields
  <2>3. StoreDone(n, w)
    BY <2>2, <1>2, <1>8, Zenon DEF StoreDone, x, y, z
  <2> QED BY <2>2, <2>3, <1>2, Zenon DEF Serves, idle
<1> QED BY <1>3, <1>4, <1>5, <1>6, <1>7, <1>8 DEF Owned

\* What the SRAM has of the line of the message at the cache.
Hit(n) == cache[n].rd.line = cache[n].hold.line
Asked(n) == Hit(n) /\ cache[n].hold.read /\ cache[n].rd.state # "INVALID"

\* What a cache does for the message of another one.
Snoops(n, w) ==
  /\ w.ready /\ w.setReply = Asked(n)
  /\ w.mem = IF Asked(n) /\ cache[n].rd.state = "MODIFIED" THEN "write" ELSE "none"
  /\ w.write = CASE Hit(n) /\ cache[n].hold.inval -> StateOnly(cache[n].hold.line, "INVALID")
                 [] Asked(n) /\ ~cache[n].hold.inval /\ cache[n].rd.state \in Owned
                      -> StateOnly(cache[n].hold.line, "SHARED")
                 [] OTHER -> None

\* What a cache wants in SNOOP.
LEMMA SnoopWanted ==
  ASSUME NEW n, cache[n].state = "SNOOP", NEW w, w = Wanted(n)
  PROVE  /\ DOMAIN w = Fields /\ w.send = None /\ w.monitor = "none" /\ ~w.done /\ ~w.endReply
         /\ Snoops(n, w)
<1> DEFINE a == Asked(n)
           t == TRUE
           x == IF Asked(n) /\ cache[n].rd.state = "MODIFIED" THEN "write" ELSE "none"
           y == CASE Hit(n) /\ cache[n].hold.inval -> StateOnly(cache[n].hold.line, "INVALID")
                  [] Asked(n) /\ ~cache[n].hold.inval /\ cache[n].rd.state \in Owned
                       -> StateOnly(cache[n].hold.line, "SHARED")
                  [] OTHER -> None
<1>1. w = [Quiet EXCEPT !.ready = t, !.setReply = a, !.mem = x, !.write = y]
  BY DEF Wanted, InSnoop, Hit, Asked, StateOnly
<1> HIDE DEF a, t, x, y
<1>2. /\ DOMAIN w = Fields /\ w.ready = t /\ w.setReply = a /\ w.mem = x /\ w.write = y
      /\ w.send = Quiet.send /\ w.monitor = Quiet.monitor /\ w.done = Quiet.done
      /\ w.endReply = Quiet.endReply
  BY <1>1, QuietFields, Zenon DEF Fields
<1>3. Snoops(n, w)
  BY <1>2, Zenon DEF Snoops, a, t, x, y
<1> QED BY <1>2, <1>3, QuietFields, Zenon

\* What a cache wants in REPLY: the data that came, or a read at the memory.
LEMMA ReplyWanted ==
  ASSUME NEW n, cache[n].state = "REPLY", NEW w, w = Wanted(n), NEW m, m = cache[n].hold
  PROVE  /\ DOMAIN w = Fields /\ w.send = None /\ w.monitor = "none" /\ ~w.done /\ ~w.setReply
         /\ w.ready
         /\ m.reply => /\ w.endReply /\ w.mem = "none"
                       /\ w.write = [line |-> req[n].line, data |-> m.data,
                                     state |-> IF m.inval THEN "EXCLUSIVE" ELSE "SHARED"]
         /\ ~m.reply => ~w.endReply /\ w.mem = "read" /\ w.write = None
<1> DEFINE t == TRUE
           x == [line |-> req[n].line, data |-> m.data,
                 state |-> IF m.inval THEN "EXCLUSIVE" ELSE "SHARED"]
<1>1. CASE m.reply
  <2>1. w = [Quiet EXCEPT !.ready = t, !.endReply = t, !.write = x]
    BY <1>1 DEF Wanted, InReply
  <2> HIDE DEF t, x
  <2>2. /\ DOMAIN w = Fields /\ w.ready = t /\ w.endReply = t /\ w.mem = Quiet.mem
        /\ w.write = x /\ w.send = Quiet.send /\ w.monitor = Quiet.monitor
        /\ w.done = Quiet.done /\ w.setReply = Quiet.setReply
    BY <2>1, QuietFields, Zenon DEF Fields
  <2> QED BY <1>1, <2>2, QuietFields, Zenon DEF t, x
<1>2. CASE ~m.reply
  <2>1. w = [Quiet EXCEPT !.ready = t, !.mem = "read"]
    BY <1>2 DEF Wanted, InReply
  <2> HIDE DEF t
  <2>2. /\ DOMAIN w = Fields /\ w.ready = t /\ w.endReply = Quiet.endReply /\ w.mem = "read"
        /\ w.write = Quiet.write /\ w.send = Quiet.send /\ w.monitor = Quiet.monitor
        /\ w.done = Quiet.done /\ w.setReply = Quiet.setReply
    BY <2>1, QuietFields, Zenon DEF Fields
  <2> QED BY <1>2, <2>2, QuietFields, Zenon DEF t
<1> QED BY <1>1, <1>2

-----------------------------------------------------------------------------
\* Where a request can be once it has been sent: at a cache, in the register of
\* one that could not pass it on, or at the memory.
Place == Cpu \X {"hold", "stall", "mem"}

\* The message at a place of the ring.
At(p) == IF p[2] = "hold" THEN cache[p[1]].hold ELSE cache[p[1]].stall

\* There is something at the place.
Going(p) == IF p[2] = "mem" THEN cache[p[1]].mem.op = "read" ELSE At(p) # None

\* The hops it still has to go.
Left(p) == IF p[2] = "mem" THEN 0 ELSE At(p).ttl

\* The cache it goes back to.
Home(p) == CASE p[2] = "hold" -> (p[1] + At(p).ttl) % RingSize
             [] p[2] = "stall" -> (p[1] + 1 + At(p).ttl) % RingSize
             [] p[2] = "mem" -> p[1]

\* It asks for data; of which line.
Reads(p) == IF p[2] = "mem" THEN TRUE ELSE At(p).read
LineOf(p) == IF p[2] = "mem" THEN cache[p[1]].mem.line ELSE At(p).line

\* Each cache has at most one request under way.
OneEach == \A p, q \in Place : Going(p) /\ Going(q) /\ Home(p) = Home(q) => p = q

\* Whatever is under way is waited for.
HomeWaits == \A p \in Place : Going(p) => Home(p) \in Cpu /\ cache[Home(p)].waitReply

\* What is under way is what the core at home asked for, and as long as it is, a
\* line that is read is not in its cache.
About ==
  \A p \in Place : Going(p) =>
    /\ LineOf(p) = req[Home(p)].line
    /\ p[2] # "mem" => At(p).inval = (req[Home(p)].op = "write")
    /\ Reads(p) => cache[Home(p)].sram[IndexOf[LineOf(p)]].state = "INVALID"

\* The registers agree with the state of the controller: CORE serves a request
\* with the SRAM's entry of its line, REPLY has a message that has come home,
\* SNOOP one of another cache with a look at the entry that cannot be out of date
\* unless it shows no copy.
Serving ==
  \A n \in Cpu :
    /\ cache[n].state = "CORE" => /\ ~cache[n].waitReply /\ Asks(n)
                                  /\ cache[n].rd = cache[n].sram[IndexOf[req[n].line]]
    /\ cache[n].state = "REPLY" => /\ cache[n].hold # None /\ LastHop(cache[n].hold)
                                   /\ cache[n].hold.read
    /\ cache[n].state = "SNOOP" =>
         /\ AcceptSnoop(n) /\ cache[n].rd \in Entry
         /\ cache[n].rd.state # "INVALID" => cache[n].rd = cache[n].sram[IndexOf[cache[n].hold.line]]
    /\ cache[n].waitReply => Asks(n)
    /\ cache[n].route = "BYPASS" => req[n] # None /\ req[n].line = IO
    /\ cache[n].monitor.mask # {} => cache[n].monitor.wr \in Data

\* The inductive invariant of the caches, for any number of them on the ring.
Inv == TypeOK /\ Serving /\ OneEach /\ HomeWaits /\ About

\* The cores that may issue a request.
Free(sig, wait) == {n \in Cpu : req[n] = None \/ Ends(n, sig[n], wait)}

\* A clock cycle with its signals and its inputs named.
Moves(wait, sig, issue) ==
  /\ wait \in BOOLEAN
  /\ sig = [n \in Cpu |-> Signals(n, wait)]
  /\ DOMAIN issue = Free(sig, wait)
  /\ \A n \in Free(sig, wait) : issue[n] \in Requests[n] \cup {None}
  /\ Step(wait, issue, sig)

\* Every cycle is one of those.
LEMMA TickMoves ==
  ASSUME Tick
  PROVE  \E wait, sig, issue : Moves(wait, sig, issue)
<1>1. PICK wait \in BOOLEAN : Cycle(wait)
  BY DEF Tick, MemAnswers, MemDelays
<1> DEFINE sig == [n \in Cpu |-> Signals(n, wait)]
<1>2. \E issue \in [Free(sig, wait) -> UNION {Requests[n] : n \in Free(sig, wait)} \cup {None}] :
        /\ \A n \in Free(sig, wait) : issue[n] \in Requests[n] \cup {None}
        /\ Step(wait, issue, sig)
  BY <1>1, Zenon DEF Cycle, Free
<1> HIDE DEF sig
<1>3. PICK issue \in [Free(sig, wait) -> UNION {Requests[n] : n \in Free(sig, wait)} \cup {None}] :
        /\ \A n \in Free(sig, wait) : issue[n] \in Requests[n] \cup {None}
        /\ Step(wait, issue, sig)
  BY <1>2
<1>4. Moves(wait, sig, issue)
  BY <1>3 DEF Moves, sig
<1> QED BY <1>4

\* What the registers of a cache get, one by one.
LEMMA NextRegisters ==
  ASSUME NEW wait, NEW sig, NEW issue, Moves(wait, sig, issue), NEW n \in Cpu,
         NEW s, s = sig[n], NEW out, out = Out(n, s), NEW p, p = PrevCpu(n),
         NEW ready, ready = sig[NextCpu(n)].ready
  PROVE  /\ s = Signals(n, wait)
         /\ cache'[n].state = NextState(n, ready)
         /\ cache'[n].waitReply = (~(s.endReply \/ MemReadEnd(n, wait))
                                     /\ (s.send # None \/ cache[n].waitReply))
         /\ cache'[n].locked = NextLocked(n, s)
         /\ cache'[n].hold = IF s.ready THEN In(n, Out(p, sig[p])) ELSE cache[n].hold
         /\ cache'[n].stall = IF ready THEN None ELSE out
         /\ cache'[n].sram = NextSram(n, SramWrite(n, s, wait))
         /\ cache'[n].rd = NextRd(n, NextState(n, ready))
         /\ cache'[n].mem = NextMem(n, s, wait)
         /\ cache'[n].route = NextRoute(n, wait)
         /\ cache'[n].monitor = NextMonitor(n, s)
         /\ req'[n] = IF n \in Free(sig, wait) THEN issue[n] ELSE req[n]
<1>0. PrevCpu(n) \in Cpu
  BY SystemAssumption, SMT DEF PrevCpu, Cpu, RingSize
<1> DEFINE outs == [k \in Cpu |-> Out(k, sig[k])]
           c == NextCache(n, s, wait, In(n, Out(p, sig[p])), ready, out)
<1>1. /\ cache'[n] = NextCache(n, sig[n], wait, In(n, outs[PrevCpu(n)]), sig[NextCpu(n)].ready, outs[n])
      /\ req'[n] = IF n \in DOMAIN issue THEN issue[n] ELSE req[n]
      /\ sig[n] = Signals(n, wait) /\ DOMAIN issue = Free(sig, wait)
  BY Zenon DEF Moves, Step
<1>2. outs[PrevCpu(n)] = Out(p, sig[p]) /\ outs[n] = out
  BY <1>0
<1> HIDE DEF outs
<1>3. cache'[n] = c
  BY <1>1, <1>2
<1>4. /\ c.state = NextState(n, ready)
      /\ c.waitReply = (~(s.endReply \/ MemReadEnd(n, wait))
                                     /\ (s.send # None \/ cache[n].waitReply))
      /\ c.locked = NextLocked(n, s)
      /\ c.hold = (IF s.ready THEN In(n, Out(p, sig[p])) ELSE cache[n].hold)
      /\ c.stall = (IF ready THEN None ELSE out)
      /\ c.sram = NextSram(n, SramWrite(n, s, wait))
      /\ c.rd = NextRd(n, NextState(n, ready))
      /\ c.mem = NextMem(n, s, wait)
      /\ c.route = NextRoute(n, wait)
      /\ c.monitor = NextMonitor(n, s)
  BY Zenon DEF NextCache
<1> HIDE DEF c
<1>5. s = Signals(n, wait) /\ req'[n] = IF n \in Free(sig, wait) THEN issue[n] ELSE req[n]
  BY <1>1
<1> QED BY <1>3, <1>4, <1>5, Zenon

\* The types of the registers, one by one.
LEMMA CacheTypes ==
  ASSUME TypeOK, NEW n \in Cpu, NEW c, c = cache[n]
  PROVE  /\ c.state \in {"ACCEPT", "CORE", "SNOOP", "REPLY"}
         /\ c.waitReply \in BOOLEAN /\ c.locked \in BOOLEAN
         /\ c.hold \in Message \cup {None} /\ c.stall \in Message \cup {None}
         /\ c.sram \in [Index -> Entry] /\ c.rd \in Entry \cup {None}
         /\ c.mem \in Access /\ c.route \in {"IDLE", "CACHE", "BYPASS"}
         /\ c.monitor \in Mon!Monitor
<1>1. c \in Cache
  BY DEF TypeOK
<1> QED BY <1>1 DEF Cache

\* An entry has a line and data unless it is INVALID.
LEMMA EntryTypes ==
  ASSUME NEW e \in Entry
  PROVE  /\ e = [line |-> e.line, state |-> e.state, data |-> e.data]
         /\ e.line \in Line \cup {None} /\ e.state \in Valid \cup {"INVALID"}
         /\ e.state \in Valid => e.line \in Line /\ e.data \in Data
         /\ e.state = "INVALID" => e.data = None
BY DEF Entry, Valid, Owned

\* A message has data when it is an answer.
LEMMA MessageTypes ==
  ASSUME NEW m \in Message
  PROVE  /\ m.ttl \in 0 .. 3 /\ m.read \in BOOLEAN /\ m.inval \in BOOLEAN /\ m.reply \in BOOLEAN
         /\ m.line \in Line
         /\ m.reply => m.read /\ m.data \in Data
         /\ ~m.reply => m.data = None
         /\ DOMAIN m = {"ttl", "read", "inval", "line", "reply", "data"}
<1>1. CASE m \in [ttl : 0 .. RingSize - 1, read : BOOLEAN, inval : BOOLEAN, line : Line,
                  reply : {FALSE}, data : {None}]
  <2>1. RingSize - 1 = 3
    BY DEF RingSize
  <2> QED BY <1>1, <2>1
<1>2. CASE m \in [ttl : 0 .. RingSize - 1, read : {TRUE}, inval : BOOLEAN, line : Line,
                  reply : {TRUE}, data : Data]
  <2>1. RingSize - 1 = 3
    BY DEF RingSize
  <2> QED BY <1>2, <2>1
<1> QED BY <1>1, <1>2 DEF Message

\* A message gets older, and an answer.
LEMMA MessageAges ==
  ASSUME NEW m \in Message, NEW hops \in 0 .. 3, NEW a, a = Aged(m, hops)
  PROVE  /\ a \in Message /\ a.ttl = (m.ttl + RingSize - hops) % RingSize
         /\ a.read = m.read /\ a.inval = m.inval /\ a.line = m.line /\ a.reply = m.reply
         /\ a.data = m.data
<1> DEFINE t == (m.ttl + RingSize - hops) % RingSize
<1>1. t \in 0 .. RingSize - 1
  BY MessageTypes, SMT DEF RingSize
<1>2. a = [m EXCEPT !.ttl = t]
  BY DEF Aged
<1> HIDE DEF t
<1>3. /\ a.ttl = t /\ a.read = m.read /\ a.inval = m.inval /\ a.line = m.line
      /\ a.reply = m.reply /\ a.data = m.data
  BY <1>2, MessageTypes, Zenon
<1>4. a \in Message
  BY <1>1, <1>2 DEF Message
<1> QED BY <1>3, <1>4 DEF t

\* A message gets its answer and is otherwise as it was.
LEMMA MessageAnswered ==
  ASSUME NEW m \in Message, m.read, NEW d \in Data,
         NEW a, a = [m EXCEPT !.reply = TRUE, !.data = d]
  PROVE  /\ a \in Message /\ a.ttl = m.ttl /\ a.read = m.read /\ a.inval = m.inval
         /\ a.line = m.line /\ a.reply = TRUE /\ a.data = d
<1>1. a \in Message
  BY DEF Message
<1>2. /\ a.ttl = m.ttl /\ a.read = m.read /\ a.inval = m.inval
      /\ a.line = m.line /\ a.reply = TRUE /\ a.data = d
  BY MessageTypes, Zenon
<1> QED BY <1>1, <1>2

-----------------------------------------------------------------------------
\* A message that has come home is waited for there, and nothing else is.
LEMMA HomeTypes ==
  ASSUME Inv, NEW n \in Cpu, cache[n].hold # None, LastHop(cache[n].hold)
  PROVE  /\ <<n, "hold">> \in Place /\ Going(<<n, "hold">>) /\ Home(<<n, "hold">>) = n
         /\ cache[n].waitReply /\ cache[n].mem.op # "read"
<1>1. <<n, "hold">> \in Place /\ Going(<<n, "hold">>) /\ <<n, "mem">> \in Place
  BY DEF Place, Going, At
<1>2. Home(<<n, "hold">>) = n
  <2>1. Home(<<n, "hold">>) = (n + cache[n].hold.ttl) % RingSize
    BY DEF Home, At
  <2> QED BY <2>1, SystemAssumption, SMT DEF LastHop, Cpu, RingSize
<1>3. Home(<<n, "mem">>) = n /\ <<n, "hold">> # <<n, "mem">>
  BY DEF Home
<1>4. cache[n].waitReply
  BY <1>1, <1>2 DEF Inv, HomeWaits
<1>5. ~Going(<<n, "mem">>)
  BY <1>1, <1>2, <1>3, Zenon DEF Inv, OneEach
<1> QED BY <1>1, <1>2, <1>4, <1>5 DEF Going

\* What a cache does in ACCEPT.
LEMMA AcceptSignals ==
  ASSUME NEW n, NEW wait, cache[n].state = "ACCEPT", NEW s, s = Signals(n, wait)
  PROVE  /\ ~s.lockLine /\ s.monitor = "none" /\ ~s.setReply /\ Nothing(s)
         /\ s.endReply = Finished(n)
         /\ s.ready = (cache[n].hold = None \/ Finished(n) \/ PassesBy(n))
<1> DEFINE w == Wanted(n)
<1>1. /\ DOMAIN w = Fields
      /\ w.send = None /\ w.write = None /\ w.mem = "none" /\ w.monitor = "none"
      /\ ~w.done /\ ~w.setReply /\ w.endReply = Finished(n)
      /\ w.ready = (cache[n].hold = None \/ Finished(n) \/ PassesBy(n))
  BY AcceptWanted, Zenon
<1>2. ~Retry(n, w, wait)
  BY <1>1 DEF Retry
<1>0. w = Wanted(n) /\ DOMAIN w = Fields
  BY <1>1
<1> HIDE DEF w
<1>3. /\ s.lockLine = (w.send # None)
      /\ s.endReply = w.endReply /\ s.setReply = w.setReply
      /\ s.send = w.send /\ s.write = w.write /\ s.mem = w.mem
      /\ s.monitor = w.monitor /\ s.done = w.done /\ s.ready = w.ready
  BY <1>0, <1>2, SignalsOf
<1> QED BY <1>1, <1>3, Zenon DEF Nothing

\* A cache in CORE serves a request, and looks at the SRAM as it is.
LEMMA CoreFacts ==
  ASSUME Inv, NEW n \in Cpu, cache[n].state = "CORE"
  PROVE  /\ Asks(n) /\ req[n] \in Request /\ req[n].line \in Line /\ ~cache[n].waitReply
         /\ cache[n].rd = cache[n].sram[IndexOf[req[n].line]] /\ cache[n].rd \in Entry
         /\ cache[n].mem.op # "read"
<1>1. /\ Asks(n) /\ ~cache[n].waitReply
      /\ cache[n].rd = cache[n].sram[IndexOf[req[n].line]]
  BY DEF Inv, Serving
<1>2. req[n] \in Request /\ req[n].line \in Line
  BY <1>1 DEF Inv, TypeOK, Asks, Request
<1>3. cache[n].rd \in Entry
  <2>1. cache[n].sram \in [Index -> Entry]
    BY CacheTypes DEF Inv
  <2>2. IndexOf[req[n].line] \in Index
    BY <1>2 DEF Index
  <2> QED BY <1>1, <2>1, <2>2
<1>4. cache[n].mem.op # "read"
  <2>1. <<n, "mem">> \in Place /\ Home(<<n, "mem">>) = n
    BY DEF Place, Home
  <2>2. Going(<<n, "mem">>) => cache[n].waitReply
    BY <2>1 DEF Inv, HomeWaits
  <2> QED BY <1>1, <2>2 DEF Going
<1> QED BY <1>1, <1>2, <1>3, <1>4

\* What a cache does in CORE; it locks the line though a retry keeps it from
\* sending.
LEMMA CoreSignals ==
  ASSUME Inv, NEW n \in Cpu, NEW wait, cache[n].state = "CORE", NEW s, s = Signals(n, wait)
  PROVE  /\ ~s.endReply /\ ~s.setReply /\ s.ready = (cache[n].hold = None)
         /\ s.lockLine => (s.send # None <=> Token!MaySend(n) \/ cache[n].locked)
         /\ s.send # None => s.lockLine
         /\ s.done => ~s.lockLine
         /\ Nothing(s) \/ Serves(n, s)
<1> DEFINE w == Wanted(n)
<1>1. /\ DOMAIN w = Fields /\ ~w.endReply /\ ~w.setReply /\ w.ready = (cache[n].hold = None)
      /\ Serves(n, w)
  BY CoreWanted, CoreFacts, Zenon
<1>2. ~MemReadEnd(n, wait)
  BY CoreFacts DEF MemReadEnd
<1>3. w.send # None => w.mem = "none"
  BY <1>1, Zenon DEF Serves, Replaces, Misses, Upgrades, LoadDone, StoreDone
<1>4. w.done => w.send = None
  BY <1>1, Zenon DEF Serves, Replaces, Misses, Upgrades, LoadDone, StoreDone
<1>5. w.send # None => (Retry(n, w, wait) <=> ~(Token!MaySend(n) \/ cache[n].locked))
  BY <1>2, <1>3 DEF Retry
<1>0. w = Wanted(n) /\ DOMAIN w = Fields
  BY <1>1
<1> HIDE DEF w
<1>6. /\ s.lockLine = (w.send # None)
      /\ s.endReply = w.endReply /\ s.setReply = w.setReply
      /\ Retry(n, w, wait) => /\ s.send = None /\ s.write = None /\ s.mem = "none"
                              /\ s.monitor = "none" /\ ~s.done
                              /\ s.ready = (cache[n].hold = None)
      /\ ~Retry(n, w, wait) => /\ s.send = w.send /\ s.write = w.write /\ s.mem = w.mem
                               /\ s.monitor = w.monitor /\ s.done = w.done
                               /\ s.ready = w.ready
  BY <1>0, SignalsOf
<1>7. Nothing(s) \/ Serves(n, s)
  <2>1. CASE Retry(n, w, wait)
    BY <1>6, <2>1, Zenon DEF Nothing
  <2>2. CASE ~Retry(n, w, wait)
    BY <1>1, <1>6, <2>2, Zenon DEF Serves, Replaces, Misses, Upgrades, LoadDone, StoreDone
  <2> QED BY <2>1, <2>2
<1>8. ~s.endReply /\ ~s.setReply /\ s.ready = (cache[n].hold = None)
  BY <1>1, <1>6, Zenon
<1>9. /\ s.lockLine => (s.send # None <=> Token!MaySend(n) \/ cache[n].locked)
      /\ s.send # None => s.lockLine
      /\ s.done => ~s.lockLine
  BY <1>4, <1>5, <1>6, Zenon
<1> QED BY <1>7, <1>8, <1>9

\* What a cache does in SNOOP: nothing, in a retry, or all of it.
LEMMA SnoopSignals ==
  ASSUME Inv, NEW n \in Cpu, NEW wait, cache[n].state = "SNOOP", NEW s, s = Signals(n, wait)
  PROVE  /\ s.send = None /\ s.monitor = "none" /\ ~s.done /\ ~s.endReply /\ ~s.lockLine
         /\ (~s.ready /\ Nothing(s)) \/ Snoops(n, s)
<1> DEFINE w == Wanted(n)
<1>1. /\ DOMAIN w = Fields /\ w.send = None /\ w.monitor = "none" /\ ~w.done /\ ~w.endReply
      /\ Snoops(n, w)
  BY SnoopWanted, Zenon
<1>2. cache[n].hold # None
  BY DEF Inv, Serving, AcceptSnoop
<1>0. w = Wanted(n) /\ DOMAIN w = Fields
  BY <1>1
<1> HIDE DEF w
<1>3. /\ s.lockLine = (w.send # None)
      /\ s.endReply = w.endReply /\ s.setReply = w.setReply
      /\ Retry(n, w, wait) => /\ s.send = None /\ s.write = None /\ s.mem = "none"
                              /\ s.monitor = "none" /\ ~s.done
                              /\ s.ready = (cache[n].hold = None)
      /\ ~Retry(n, w, wait) => /\ s.send = w.send /\ s.write = w.write /\ s.mem = w.mem
                               /\ s.monitor = w.monitor /\ s.done = w.done
                               /\ s.ready = w.ready
  BY <1>0, SignalsOf
<1>4. CASE Retry(n, w, wait)
  BY <1>1, <1>2, <1>3, <1>4, Zenon DEF Nothing
<1>5. CASE ~Retry(n, w, wait)
  BY <1>1, <1>3, <1>5, Zenon DEF Snoops
<1> QED BY <1>4, <1>5

\* What a cache makes of the message that has come home with data, or without.
Takes(n, w) ==
  /\ cache[n].hold.reply /\ w.endReply /\ w.ready /\ w.mem = "none"
  /\ w.write = [line |-> req[n].line, data |-> cache[n].hold.data,
                state |-> IF cache[n].hold.inval THEN "EXCLUSIVE" ELSE "SHARED"]
Fetches(n, w) ==
  /\ ~cache[n].hold.reply /\ ~w.endReply /\ w.ready /\ w.mem = "read" /\ w.write = None
Holds(n, w) ==
  ~cache[n].hold.reply /\ ~w.endReply /\ ~w.ready /\ Nothing(w)

\* What a cache does in REPLY; data are never held up.
LEMMA ReplySignals ==
  ASSUME Inv, NEW n \in Cpu, NEW wait, cache[n].state = "REPLY", NEW s, s = Signals(n, wait)
  PROVE  /\ s.send = None /\ s.monitor = "none" /\ ~s.done /\ ~s.setReply /\ ~s.lockLine
         /\ Takes(n, s) \/ Fetches(n, s) \/ Holds(n, s)
<1> DEFINE w == Wanted(n)
           m == cache[n].hold
<1>1. /\ DOMAIN w = Fields /\ w.send = None /\ w.monitor = "none" /\ ~w.done /\ ~w.setReply
      /\ w.ready
      /\ m.reply => /\ w.endReply /\ w.mem = "none"
                    /\ w.write = [line |-> req[n].line, data |-> m.data,
                                  state |-> IF m.inval THEN "EXCLUSIVE" ELSE "SHARED"]
      /\ ~m.reply => ~w.endReply /\ w.mem = "read" /\ w.write = None
  BY ReplyWanted, Zenon
<1>2. m # None /\ LastHop(m)
  BY DEF Inv, Serving
<1>3. cache[n].mem.op # "read"
  BY <1>2, HomeTypes
<1>4. m.reply => ~Retry(n, w, wait)
  BY <1>1, <1>3 DEF Retry, MemReadEnd
<1>0. w = Wanted(n) /\ DOMAIN w = Fields
  BY <1>1
<1> HIDE DEF w
<1>5. /\ s.lockLine = (w.send # None)
      /\ s.endReply = w.endReply /\ s.setReply = w.setReply
      /\ Retry(n, w, wait) => /\ s.send = None /\ s.write = None /\ s.mem = "none"
                              /\ s.monitor = "none" /\ ~s.done
                              /\ s.ready = (cache[n].hold = None)
      /\ ~Retry(n, w, wait) => /\ s.send = w.send /\ s.write = w.write /\ s.mem = w.mem
                               /\ s.monitor = w.monitor /\ s.done = w.done
                               /\ s.ready = w.ready
  BY <1>0, SignalsOf
<1>6. s.send = None /\ s.monitor = "none" /\ ~s.done /\ ~s.setReply /\ ~s.lockLine
  BY <1>1, <1>5, Zenon
<1>7. CASE m.reply
  <2>1. Takes(n, s)
    BY <1>1, <1>4, <1>5, <1>7, Zenon DEF Takes
  <2> QED BY <1>6, <2>1
<1>8. CASE ~m.reply /\ Retry(n, w, wait)
  <2>1. Holds(n, s)
    BY <1>1, <1>2, <1>5, <1>8, Zenon DEF Holds, Nothing
  <2> QED BY <1>6, <2>1
<1>9. CASE ~m.reply /\ ~Retry(n, w, wait)
  <2>1. Fetches(n, s)
    BY <1>1, <1>5, <1>9, Zenon DEF Fetches
  <2> QED BY <1>6, <2>1
<1> QED BY <1>7, <1>8, <1>9

\* Only CORE sends, ends the core's request, or locks.
LEMMA OnlyCore ==
  ASSUME Inv, NEW n \in Cpu, NEW wait, NEW s, s = Signals(n, wait), cache[n].state # "CORE"
  PROVE  s.send = None /\ ~s.done /\ ~s.lockLine /\ s.monitor = "none"
<1>1. cache[n].state \in {"ACCEPT", "CORE", "SNOOP", "REPLY"}
  BY CacheTypes DEF Inv
<1>2. CASE cache[n].state = "ACCEPT"
  BY <1>2, AcceptSignals, Zenon DEF Nothing
<1>3. CASE cache[n].state = "SNOOP"
  BY <1>3, SnoopSignals, Zenon
<1>4. CASE cache[n].state = "REPLY"
  BY <1>4, ReplySignals, Zenon
<1> QED BY <1>1, <1>2, <1>3, <1>4

\* A cache that sends is in CORE, waits for nothing and has the line for itself.
LEMMA Sends ==
  ASSUME Inv, NEW n \in Cpu, NEW wait, NEW s, s = Signals(n, wait), s.send # None
  PROVE  /\ cache[n].state = "CORE" /\ Asks(n) /\ req[n] \in Request /\ req[n].line \in Line
         /\ ~cache[n].waitReply /\ s.lockLine /\ ~s.endReply /\ ~s.done
         /\ Token!MaySend(n) \/ cache[n].locked
         /\ Misses(n, s) \/ Upgrades(n, s)
<1>1. cache[n].state = "CORE"
  BY OnlyCore
<1>2. /\ ~s.endReply /\ s.lockLine /\ ~s.done
      /\ Token!MaySend(n) \/ cache[n].locked
      /\ Nothing(s) \/ Serves(n, s)
  BY <1>1, CoreSignals, Zenon
<1>3. Misses(n, s) \/ Upgrades(n, s)
  BY <1>2, Zenon DEF Nothing, Serves, Replaces, LoadDone, StoreDone
<1>4. /\ Asks(n) /\ req[n] \in Request /\ req[n].line \in Line /\ ~cache[n].waitReply
  BY <1>1, CoreFacts
<1> QED BY <1>1, <1>2, <1>3, <1>4, Zenon

\* A cache that gives its data has them.
LEMMA Gives ==
  ASSUME Inv, NEW n \in Cpu, NEW wait, NEW s, s = Signals(n, wait), s.setReply, s.ready
  PROVE  /\ cache[n].state = "SNOOP" /\ Asked(n) /\ cache[n].hold \in Message
         /\ cache[n].rd \in Entry /\ cache[n].rd.state \in Valid /\ cache[n].rd.data \in Data
<1>1. cache[n].state \in {"ACCEPT", "CORE", "SNOOP", "REPLY"}
  BY CacheTypes DEF Inv
<1>2. cache[n].state = "SNOOP"
  BY <1>1, AcceptSignals, CoreSignals, ReplySignals, Zenon
<1>3. Snoops(n, s)
  BY <1>2, SnoopSignals, Zenon
<1>4. Asked(n)
  BY <1>3, Zenon DEF Snoops
<1>5. cache[n].hold \in Message /\ cache[n].rd \in Entry
  BY <1>2, CacheTypes DEF Inv, Serving, AcceptSnoop
<1>6. cache[n].rd.state \in Valid
  BY <1>4, <1>5, EntryTypes DEF Asked
<1> QED BY <1>2, <1>4, <1>5, <1>6, EntryTypes

-----------------------------------------------------------------------------
\* What leaves a cache: what could not leave before, what it sends, or what it
\* forwards.
Keeps(n, o) == cache[n].stall # None /\ o = cache[n].stall
Sent(n, s, o) ==
  /\ s.send # None
  /\ o.ttl = 3 /\ o.read = s.send[1] /\ o.inval = s.send[2] /\ ~o.reply /\ o.line = req[n].line
Forwards(n, s, o) ==
  /\ s.send = None /\ cache[n].hold \in Message /\ cache[n].hold # None
  /\ ~LastHop(cache[n].hold) /\ s.ready
  /\ o.ttl = cache[n].hold.ttl - 1 /\ o.line = cache[n].hold.line
  /\ o.read = cache[n].hold.read /\ o.inval = cache[n].hold.inval
  /\ o.reply = (s.setReply \/ cache[n].hold.reply)
  /\ o.data = IF s.setReply THEN cache[n].rd.data ELSE cache[n].hold.data

\* What leaves a cache is a message, of one of the three kinds.
LEMMA OutIs ==
  ASSUME Inv, NEW n \in Cpu, NEW wait, NEW s, s = Signals(n, wait),
         NEW o, o = Out(n, s), o # None
  PROVE  /\ o \in Message
         /\ Keeps(n, o) \/ (cache[n].stall = None /\ (Sent(n, s, o) \/ Forwards(n, s, o)))
<1>1. CASE cache[n].stall # None
  <2>1. o = cache[n].stall
    BY <1>1 DEF Out
  <2> QED BY <1>1, <2>1, CacheTypes DEF Keeps, Inv
<1>2. CASE cache[n].stall = None /\ s.send # None
  <2> DEFINE a == s.send[1]
             b == s.send[2]
             l == req[n].line
  <2>1. o = [ttl |-> 3, read |-> a, inval |-> b, reply |-> FALSE, line |-> l, data |-> None]
    BY <1>2 DEF Out, RingSize
  <2>2. a \in BOOLEAN /\ b \in BOOLEAN /\ l \in Line
    <3>0. l \in Line
      BY <1>2, Sends
    <3>1. Misses(n, s) \/ Upgrades(n, s)
      BY <1>2, Sends, Zenon
    <3>2. CASE Misses(n, s)
      <4>1. PICK v \in BOOLEAN : s.send = <<TRUE, v>>
        BY <3>2 DEF Misses
      <4> QED BY <3>0, <4>1
    <3>3. CASE Upgrades(n, s)
      <4>1. s.send = <<FALSE, TRUE>>
        BY <3>3 DEF Upgrades
      <4> QED BY <3>0, <4>1
    <3> QED BY <3>1, <3>2, <3>3
  <2> HIDE DEF a, b, l
  <2>3. o \in Message
    BY <2>1, <2>2 DEF Message, RingSize
  <2>4. o.ttl = 3 /\ o.read = a /\ o.inval = b /\ o.reply = FALSE /\ o.line = l
    BY <2>1
  <2>5. Sent(n, s, o)
    BY <1>2, <2>4, Zenon DEF Sent, a, b, l
  <2> QED BY <1>2, <2>3, <2>5
<1>3. CASE cache[n].stall = None /\ s.send = None
  <2> DEFINE m == cache[n].hold
  <2>1. m # None /\ ~LastHop(m) /\ s.ready
    BY <1>3 DEF Out
  <2>2. m \in Message
    BY <2>1, CacheTypes DEF Inv
  <2>3. PICK a : a = Aged(m, 1)
    OBVIOUS
  <2>4. o = IF s.setReply THEN [a EXCEPT !.reply = TRUE, !.data = cache[n].rd.data] ELSE a
    BY <1>3, <2>1, <2>3 DEF Out
  <2>5. /\ a \in Message /\ a.ttl = (m.ttl + RingSize - 1) % RingSize
        /\ a.read = m.read /\ a.inval = m.inval /\ a.line = m.line /\ a.reply = m.reply
        /\ a.data = m.data
    <3>1. 1 \in 0 .. 3
      OBVIOUS
    <3> HIDE DEF m
    <3> QED BY <2>2, <2>3, <3>1, MessageAges
  <2>6. a.ttl = m.ttl - 1
    <3>1. m.ttl \in 1 .. 3
      BY <2>1, <2>2, MessageTypes DEF LastHop
    <3> QED BY <3>1, <2>5, SMT DEF RingSize
  <2>7. CASE ~s.setReply
    <3>1. o = a
      BY <2>4, <2>7
    <3>2. o.reply = (s.setReply \/ m.reply)
      BY <2>2, <2>5, <2>7, <3>1, MessageTypes
    <3>3. Forwards(n, s, o)
      BY <1>3, <2>1, <2>2, <2>5, <2>6, <2>7, <3>1, <3>2, Zenon DEF Forwards
    <3> QED BY <1>3, <2>5, <3>1, <3>3
  <2>8. CASE s.setReply
    <3>1. m.read /\ cache[n].rd.data \in Data
      BY <2>1, <2>8, Gives DEF Asked
    <3>2. PICK d \in Data : d = cache[n].rd.data
      BY <3>1
    <3>3. o = [a EXCEPT !.reply = TRUE, !.data = d]
      BY <2>4, <2>8, <3>2
    <3>4. a.read
      BY <2>5, <3>1
    <3>5. /\ o \in Message /\ o.ttl = a.ttl /\ o.read = a.read /\ o.inval = a.inval
          /\ o.line = a.line /\ o.reply = TRUE /\ o.data = d
      BY <2>5, <3>3, <3>4, MessageAnswered, ZenonT(60)
    <3>6. Forwards(n, s, o)
      BY <1>3, <2>1, <2>2, <2>5, <2>6, <2>8, <3>2, <3>5, Zenon DEF Forwards
    <3> QED BY <1>3, <3>5, <3>6
  <2> QED BY <2>7, <2>8
<1> QED BY <1>1, <1>2, <1>3

\* The neighbours on the ring.
LEMMA RingOrder ==
  ASSUME NEW n \in Cpu
  PROVE  /\ n \in 0 .. 3 /\ PrevCpu(n) \in Cpu /\ NextCpu(n) \in Cpu
         /\ NextCpu(PrevCpu(n)) = n /\ PrevCpu(NextCpu(n)) = n
         /\ n # 0 => PrevCpu(n) = n - 1
         /\ n = 0 => PrevCpu(n) = CPUS - 1
<1>1. CPUS \in 1 .. 4 /\ n \in 0 .. CPUS - 1
  BY SystemAssumption DEF Cpu, RingSize
<1>2. /\ PrevCpu(n) = (IF n = 0 THEN CPUS - 1 ELSE n - 1)
      /\ PrevCpu(n) \in 0 .. CPUS - 1
  BY <1>1 DEF PrevCpu
<1>3. /\ NextCpu(n) \in 0 .. CPUS - 1
      /\ NextCpu(PrevCpu(n)) = n
  BY <1>1, <1>2 DEF NextCpu, Token!NextNode
<1>4. PrevCpu(NextCpu(n)) = n
  BY <1>1 DEF PrevCpu, NextCpu, Token!NextNode
<1> QED BY <1>1, <1>2, <1>3, <1>4 DEF Cpu

\* The null caches take hops off a message, none of which is missing at its home.
LEMMA InIs ==
  ASSUME NEW n \in Cpu, NEW o \in Message, o # None, NEW i, i = In(n, o)
  PROVE  /\ i \in Message
         /\ i.read = o.read /\ i.inval = o.inval /\ i.line = o.line /\ i.reply = o.reply
         /\ i.data = o.data
         /\ (n + i.ttl) % RingSize = (PrevCpu(n) + 1 + o.ttl) % RingSize
         /\ CPUS = RingSize => i.ttl = o.ttl
<1>1. o.ttl \in 0 .. 3 /\ CPUS \in 1 .. 4 /\ n \in 0 .. CPUS - 1
  BY MessageTypes, SystemAssumption DEF RingSize, Cpu
<1>2. CASE n # 0
  <2>1. i = o
    BY <1>2 DEF In
  <2>2. PrevCpu(n) + 1 = n
    BY <1>1, <1>2, SMT DEF PrevCpu
  <2> QED BY <2>1, <2>2
<1>3. CASE n = 0
  <2> DEFINE h == RingSize - CPUS
  <2>1. i = Aged(o, h)
    BY <1>3 DEF In
  <2>2. h \in 0 .. 3
    BY <1>1, SMT DEF RingSize
  <2>3. /\ i \in Message /\ i.ttl = (o.ttl + RingSize - h) % RingSize
        /\ i.read = o.read /\ i.inval = o.inval /\ i.line = o.line /\ i.reply = o.reply
        /\ i.data = o.data
    BY <2>1, <2>2, MessageAges, Zenon
  <2>4. (n + i.ttl) % RingSize = (PrevCpu(n) + 1 + o.ttl) % RingSize
    <3>1. PrevCpu(n) = CPUS - 1
      BY <1>3 DEF PrevCpu
    <3> QED BY <1>1, <1>3, <2>3, <3>1, SMT DEF RingSize
  <2>5. CPUS = RingSize => i.ttl = o.ttl
    BY <1>1, <2>3, SMT DEF RingSize
  <2> QED BY <2>3, <2>4, <2>5
<1> QED BY <1>2, <1>3

-----------------------------------------------------------------------------
\* Where what leaves a cache was; "core" if it is new.
OutOf(n, s) ==
  IF cache[n].stall # None THEN <<n, "stall">>
  ELSE IF s.send # None THEN <<n, "core">> ELSE <<n, "hold">>

\* Where what is at a place after a cycle was before.
Origin(sig, p) ==
  IF p[2] = "hold"
    THEN IF sig[p[1]].ready THEN OutOf(PrevCpu(p[1]), sig[PrevCpu(p[1])]) ELSE p
  ELSE IF p[2] = "stall" THEN OutOf(p[1], sig[p[1]])
  ELSE IF sig[p[1]].mem = "read" THEN <<p[1], "hold">> ELSE p

\* o leaves cache n; it was at q.
Leaves(n, s, o, q) ==
  \/ q = <<n, "stall">> /\ Keeps(n, o)
  \/ q = <<n, "core">> /\ Sent(n, s, o)
  \/ q = <<n, "hold">> /\ Forwards(n, s, o)

\* The three ways of a cycle from place q to place p: it is still there, it has
\* left the cache where it was, or it has become a read at the memory.
Stays(wait, sig, p, q) ==
  /\ q = p
  /\ p[2] = "hold" => ~sig[p[1]].ready /\ cache'[p[1]].hold = cache[p[1]].hold
  /\ p[2] = "mem" => /\ sig[p[1]].mem # "read" /\ ~MemReadEnd(p[1], wait)
                     /\ cache'[p[1]].mem = cache[p[1]].mem
  /\ p[2] # "stall"
Arrives(sig, p, q) ==
  /\ p[2] # "mem" /\ q[1] \in Cpu
  /\ p[2] = "hold" => sig[p[1]].ready /\ p[1] = NextCpu(q[1])
  /\ p[2] = "stall" => p[1] = q[1] /\ ~sig[NextCpu(p[1])].ready
  /\ \E o, i \in Message :
       /\ o # None /\ Leaves(q[1], sig[q[1]], o, q)
       /\ At(p)' = i /\ Home(p)' = (q[1] + 1 + o.ttl) % RingSize
       /\ i.read = o.read /\ i.inval = o.inval /\ i.line = o.line /\ i.reply = o.reply
       /\ i.data = o.data
       /\ CPUS = RingSize => i.ttl = o.ttl
Fetched(sig, p, q) ==
  /\ p = <<q[1], "mem">> /\ q = <<q[1], "hold">> /\ q[1] \in Cpu
  /\ cache[q[1]].state = "REPLY" /\ Fetches(q[1], sig[q[1]]) /\ sig[q[1]].mem = "read"
  /\ cache'[q[1]].mem = [op |-> "read", line |-> req[q[1]].line, data |-> None]

\* What a cache may begin at the memory.
LEMMA MemWants ==
  ASSUME Inv, NEW n \in Cpu, NEW wait, NEW s, s = Signals(n, wait)
  PROVE  /\ s.mem \in {"none", "read", "write"}
         /\ s.mem = "read" => cache[n].state = "REPLY" /\ Fetches(n, s)
         /\ s.mem = "write" => cache[n].rd \in Entry /\ cache[n].rd.state = "MODIFIED"
<1>1. cache[n].state \in {"ACCEPT", "CORE", "SNOOP", "REPLY"}
  BY CacheTypes DEF Inv
<1>2. CASE cache[n].state = "ACCEPT"
  <2>1. s.mem = "none"
    BY <1>2, AcceptSignals, Zenon DEF Nothing
  <2> QED BY <2>1
<1>3. CASE cache[n].state = "CORE"
  <2>1. cache[n].rd \in Entry
    BY <1>3, CoreFacts
  <2>2. Nothing(s) \/ Serves(n, s)
    BY <1>3, CoreSignals, Zenon
  <2>3. s.mem = "none" \/ (s.mem = "write" /\ cache[n].rd.state = "MODIFIED")
    BY <2>2, Zenon DEF Nothing, Serves, Replaces, Misses, Upgrades, LoadDone, StoreDone
  <2> QED BY <2>1, <2>3
<1>4. CASE cache[n].state = "SNOOP"
  <2>1. cache[n].rd \in Entry
    BY <1>4 DEF Inv, Serving
  <2>2. Nothing(s) \/ Snoops(n, s)
    BY <1>4, SnoopSignals, Zenon
  <2>3. s.mem = "none" \/ (s.mem = "write" /\ cache[n].rd.state = "MODIFIED")
    BY <2>2, Zenon DEF Nothing, Snoops
  <2> QED BY <2>1, <2>3
<1>5. CASE cache[n].state = "REPLY"
  <2>1. Takes(n, s) \/ Fetches(n, s) \/ Holds(n, s)
    BY <1>5, ReplySignals, Zenon
  <2>2. s.mem = "none" \/ (s.mem = "read" /\ Fetches(n, s))
    BY <2>1, Zenon DEF Takes, Fetches, Holds, Nothing
  <2> QED BY <1>5, <2>2
<1> QED BY <1>1, <1>2, <1>3, <1>4, <1>5

\* What leaves a cache leaves one of its places.
LEMMA OutLeaves ==
  ASSUME Inv, NEW n \in Cpu, NEW wait, NEW s, s = Signals(n, wait),
         NEW o, o = Out(n, s), o # None, NEW q, q = OutOf(n, s)
  PROVE  o \in Message /\ Leaves(n, s, o, q) /\ q[1] = n
<1>1. /\ o \in Message
      /\ Keeps(n, o) \/ (cache[n].stall = None /\ (Sent(n, s, o) \/ Forwards(n, s, o)))
  BY OutIs, Zenon
<1>2. CASE Keeps(n, o)
  BY <1>1, <1>2 DEF Keeps, OutOf, Leaves
<1>3. CASE cache[n].stall = None /\ Sent(n, s, o)
  <2>1. q = <<n, "core">>
    BY <1>3 DEF Sent, OutOf
  <2> QED BY <1>1, <1>3, <2>1 DEF Leaves
<1>4. CASE cache[n].stall = None /\ Forwards(n, s, o)
  <2>1. q = <<n, "hold">>
    BY <1>4 DEF Forwards, OutOf
  <2> QED BY <1>1, <1>4, <2>1 DEF Leaves
<1> QED BY <1>1, <1>2, <1>3, <1>4

\* Everything that is under way after a cycle comes one of those ways.
LEMMA Flow ==
  ASSUME Inv, NEW wait, NEW sig, NEW issue, Moves(wait, sig, issue),
         NEW p \in Place, Going(p)', NEW q, q = Origin(sig, p)
  PROVE  Stays(wait, sig, p, q) \/ Arrives(sig, p, q) \/ Fetched(sig, p, q)
<1>0. PICK n \in Cpu, k \in {"hold", "stall", "mem"} : p = <<n, k>>
  BY DEF Place
<1> DEFINE s == sig[n]
           pp == PrevCpu(n)
           o == Out(n, s)
           po == Out(pp, sig[pp])
<1>1. /\ s = Signals(n, wait) /\ sig[pp] = Signals(pp, wait) /\ pp \in Cpu
      /\ NextCpu(pp) = n /\ NextCpu(n) \in Cpu
  <2>1. pp \in Cpu /\ NextCpu(pp) = n /\ NextCpu(n) \in Cpu
    BY RingOrder
  <2> QED BY <2>1 DEF Moves
<1>a. s = sig[n] /\ o = Out(n, s) /\ pp = PrevCpu(n) /\ po = Out(pp, sig[pp])
  OBVIOUS
<1> HIDE DEF o, po, s, pp
<1>2. /\ cache'[n].hold = IF s.ready THEN In(n, po) ELSE cache[n].hold
      /\ cache'[n].stall = IF sig[NextCpu(n)].ready THEN None ELSE o
      /\ cache'[n].mem = NextMem(n, s, wait)
  BY <1>a, NextRegisters
<1>3. CASE k = "hold" /\ s.ready
  <2>1. q = OutOf(pp, sig[pp])
    BY <1>0, <1>3 DEF Origin, s, pp
  <2>2. po # None /\ cache'[n].hold = In(n, po) /\ In(n, po) # None
    BY <1>0, <1>2, <1>3 DEF Going, At, In
  <2>3. po \in Message /\ Leaves(pp, sig[pp], po, q) /\ q[1] = pp
    BY <1>1, <2>1, <2>2, OutLeaves DEF po
  <2> DEFINE i == In(n, po)
  <2>4. /\ i \in Message
        /\ i.read = po.read /\ i.inval = po.inval /\ i.line = po.line /\ i.reply = po.reply
        /\ i.data = po.data
        /\ (n + i.ttl) % RingSize = (pp + 1 + po.ttl) % RingSize
        /\ CPUS = RingSize => i.ttl = po.ttl
    BY <2>2, <2>3, InIs, Zenon DEF pp
  <2>5. At(p)' = i /\ Home(p)' = (n + i.ttl) % RingSize
    BY <1>0, <1>3, <2>2 DEF At, Home
  <2> HIDE DEF i
  <2>6. Arrives(sig, p, q)
    <3>1. \E oo, ii \in Message :
            /\ oo # None /\ Leaves(q[1], sig[q[1]], oo, q)
            /\ At(p)' = ii /\ Home(p)' = (q[1] + 1 + oo.ttl) % RingSize
            /\ ii.read = oo.read /\ ii.inval = oo.inval /\ ii.line = oo.line /\ ii.reply = oo.reply
            /\ ii.data = oo.data
            /\ CPUS = RingSize => ii.ttl = oo.ttl
      BY <2>2, <2>3, <2>4, <2>5, Zenon
    <3>2. p[1] = n /\ p[2] = "hold"
      BY <1>0, <1>3
    <3> QED BY <1>1, <1>3, <2>3, <3>1, <3>2 DEF Arrives, s
  <2> QED BY <2>6
<1>4. CASE k = "hold" /\ ~s.ready
  <2>1. q = p /\ cache'[n].hold = cache[n].hold
    BY <1>0, <1>2, <1>4 DEF Origin, s
  <2>2. Stays(wait, sig, p, q)
    BY <1>0, <1>4, <2>1 DEF Stays, s
  <2> QED BY <2>2
<1>5. CASE k = "stall"
  <2>1. q = OutOf(n, s)
    BY <1>0, <1>5 DEF Origin, s
  <2>2. ~sig[NextCpu(n)].ready /\ o # None /\ cache'[n].stall = o
    BY <1>0, <1>2, <1>5 DEF Going, At
  <2>3. o \in Message /\ Leaves(n, s, o, q) /\ q[1] = n
    BY <1>1, <2>1, <2>2, OutLeaves DEF o
  <2>4. At(p)' = o /\ Home(p)' = (n + 1 + o.ttl) % RingSize
    BY <1>0, <1>5, <2>2 DEF At, Home
  <2>5. Arrives(sig, p, q)
    <3>1. \E oo, ii \in Message :
            /\ oo # None /\ Leaves(q[1], sig[q[1]], oo, q)
            /\ At(p)' = ii /\ Home(p)' = (q[1] + 1 + oo.ttl) % RingSize
            /\ ii.read = oo.read /\ ii.inval = oo.inval /\ ii.line = oo.line /\ ii.reply = oo.reply
            /\ ii.data = oo.data
            /\ CPUS = RingSize => ii.ttl = oo.ttl
      BY <2>2, <2>3, <2>4, Zenon DEF s
    <3>2. p[1] = n /\ p[2] = "stall"
      BY <1>0, <1>5
    <3> QED BY <1>1, <1>5, <2>2, <2>3, <3>1, <3>2 DEF Arrives
  <2> QED BY <2>5
<1>6. CASE k = "mem" /\ s.mem = "read"
  <2>1. q = <<n, "hold">>
    BY <1>0, <1>6 DEF Origin, s
  <2>2. cache[n].state = "REPLY" /\ Fetches(n, s)
    BY <1>1, <1>6, MemWants
  <2>3. cache'[n].mem = [op |-> "read", line |-> req[n].line, data |-> None]
    BY <1>2, <1>6 DEF NextMem
  <2>4. Fetched(sig, p, q)
    BY <1>0, <1>6, <2>1, <2>2, <2>3 DEF Fetched, s
  <2> QED BY <2>4
<1>7. CASE k = "mem" /\ s.mem # "read"
  <2>1. q = p
    BY <1>0, <1>7 DEF Origin, s
  <2>2. cache'[n].mem.op = "read"
    BY <1>0, <1>7 DEF Going
  <2>3. s.mem \in {"none", "read", "write"}
    BY <1>1, MemWants
  <2>4. cache'[n].mem = cache[n].mem /\ ~MemReadEnd(n, wait)
    BY <1>2, <1>7, <2>2, <2>3 DEF NextMem, NoAccess, MemReadEnd, MemEnd
  <2>5. Stays(wait, sig, p, q)
    BY <1>0, <1>7, <2>1, <2>4 DEF Stays, s
  <2> QED BY <2>5
<1> QED BY <1>3, <1>4, <1>5, <1>6, <1>7

-----------------------------------------------------------------------------
\* Place p, after the cycle, has what was at q.
Same(p, q) ==
  /\ q \in Place /\ Going(q) /\ Home(p)' = Home(q) /\ LineOf(p)' = LineOf(q)
  /\ Reads(p)' = Reads(q)
  /\ p[2] # "mem" => q[2] # "mem" /\ At(p)'.inval = At(q).inval

\* Place p, after the cycle, has what cache n sent.
New(p, n, s) ==
  /\ s.send # None /\ Home(p)' = n /\ LineOf(p)' = req[n].line /\ p[2] # "mem"
  /\ At(p)'.read = s.send[1] /\ At(p)'.inval = s.send[2] /\ ~At(p)'.reply

\* Nothing changes on its way, and only a core makes something new.
LEMMA Kept ==
  ASSUME Inv, NEW wait, NEW sig, NEW issue, Moves(wait, sig, issue),
         NEW p \in Place, Going(p)', NEW q, q = Origin(sig, p)
  PROVE  /\ q[1] \in Cpu
         /\ q[2] = "core" => New(p, q[1], sig[q[1]])
         /\ q[2] # "core" => Same(p, q)
<1>0. PICK n \in Cpu, k \in {"hold", "stall", "mem"} : p = <<n, k>>
  BY DEF Place
<1>1. CASE Stays(wait, sig, p, q)
  <2>1. q = p /\ (k = "hold" \/ k = "mem") /\ q[1] \in Cpu
    BY <1>0, <1>1 DEF Stays
  <2>2. CASE k = "hold"
    <3>1. cache'[n].hold = cache[n].hold
      BY <1>0, <1>1, <2>2 DEF Stays
    <3>2. p[1] = n /\ p[2] = "hold" /\ At(p)' = At(p)
      BY <1>0, <2>2, <3>1 DEF At
    <3>3. Reads(p)' = Reads(q)
      BY <2>1, <3>2, Zenon DEF Reads
    <3>4. Same(p, q)
      BY <2>1, <3>2, <3>3 DEF Same, Going, Home, LineOf
    <3> QED BY <1>0, <2>1, <2>2, <3>4
  <2>3. CASE k = "mem"
    <3>1. cache'[n].mem = cache[n].mem
      BY <1>0, <1>1, <2>3 DEF Stays
    <3>2. p[1] = n /\ p[2] = "mem"
      BY <1>0, <2>3
    <3>3. Reads(p)' = Reads(q)
      BY <2>1, <3>2, Zenon DEF Reads
    <3>4. Same(p, q)
      BY <2>1, <3>1, <3>2, <3>3 DEF Same, Going, Home, LineOf
    <3> QED BY <1>0, <2>1, <2>3, <3>4
  <2> QED BY <2>1, <2>2, <2>3
<1>2. CASE Arrives(sig, p, q)
  <2> DEFINE d == q[1]
             s == sig[d]
  <2>1. d \in Cpu /\ p[2] # "mem"
    BY <1>2 DEF Arrives
  <2>2. PICK o \in Message, i \in Message :
          /\ o # None /\ Leaves(d, s, o, q)
          /\ At(p)' = i /\ Home(p)' = (d + 1 + o.ttl) % RingSize
          /\ i.read = o.read /\ i.inval = o.inval /\ i.line = o.line /\ i.reply = o.reply
    BY <1>2, Zenon DEF Arrives
  <2>3. Reads(p)' = i.read /\ LineOf(p)' = i.line
    BY <2>1, <2>2 DEF Reads, LineOf
  <2> HIDE DEF d, s
  <2>4. d \in 0 .. 3 /\ o.ttl \in 0 .. 3
    BY <2>1, MessageTypes, RingOrder
  <2>5. CASE q = <<d, "stall">> /\ Keeps(d, o)
    <3>1. At(q) = o /\ q \in Place /\ Going(q)
      BY <2>1, <2>2, <2>5 DEF At, Keeps, Place, Going
    <3>2. Home(q) = (d + 1 + o.ttl) % RingSize /\ LineOf(q) = o.line /\ Reads(q) = o.read
      BY <2>5, <3>1 DEF Home, LineOf, Reads
    <3>3. Same(p, q)
      BY <2>1, <2>2, <2>3, <2>5, <3>1, <3>2 DEF Same
    <3> QED BY <2>1, <2>5, <3>3 DEF d
  <2>6. CASE q = <<d, "core">> /\ Sent(d, s, o)
    <3>1. o.ttl = 3 /\ s.send # None /\ o.read = s.send[1] /\ o.inval = s.send[2] /\ ~o.reply
          /\ o.line = req[d].line
      BY <2>6 DEF Sent
    <3>2. (d + 1 + o.ttl) % RingSize = d
      BY <2>4, <3>1, SMT DEF RingSize
    <3>3. New(p, d, s)
      BY <2>1, <2>2, <2>3, <3>1, <3>2 DEF New
    <3> QED BY <2>1, <2>6, <3>3 DEF d, s
  <2>7. CASE q = <<d, "hold">> /\ Forwards(d, s, o)
    <3> DEFINE m == cache[d].hold
    <3>1. /\ m \in Message /\ m # None /\ o.ttl = m.ttl - 1 /\ o.line = m.line
          /\ o.read = m.read /\ o.inval = m.inval
      BY <2>7 DEF Forwards
    <3>2. At(q) = m /\ q \in Place /\ Going(q)
      BY <2>1, <2>7, <3>1 DEF At, Place, Going
    <3>3. Home(q) = (d + m.ttl) % RingSize /\ LineOf(q) = m.line /\ Reads(q) = m.read
      BY <2>7, <3>2 DEF Home, LineOf, Reads
    <3>4. m.ttl \in 0 .. 3
      BY <3>1, MessageTypes
    <3> HIDE DEF m
    <3>5. d + 1 + o.ttl = d + m.ttl
      BY <2>4, <3>1, <3>4
    <3>6. Same(p, q)
      BY <2>1, <2>2, <2>3, <2>7, <3>1, <3>2, <3>3, <3>5 DEF Same
    <3> QED BY <2>1, <2>7, <3>6 DEF d
  <2> QED BY <2>2, <2>5, <2>6, <2>7 DEF Leaves
<1>3. CASE Fetched(sig, p, q)
  <2> DEFINE d == q[1]
  <2>1. /\ p = <<d, "mem">> /\ q = <<d, "hold">> /\ d \in Cpu /\ cache[d].state = "REPLY"
        /\ cache'[d].mem.line = req[d].line
    BY <1>3 DEF Fetched
  <2>2. cache[d].hold # None /\ LastHop(cache[d].hold) /\ cache[d].hold.read
    BY <2>1 DEF Inv, Serving
  <2>3. q \in Place /\ Going(q) /\ Home(q) = d
    BY <2>1, <2>2, HomeTypes
  <2>4. cache[d].hold \in Message
    BY <2>1, <2>2, CacheTypes DEF Inv
  <2>5. LineOf(q) = req[d].line /\ Reads(q) = TRUE
    <3>1. LineOf(q) = req[d].line
      BY <2>3 DEF Inv, About
    <3>2. Reads(q) = cache[d].hold.read
      <4>1. q[1] = d /\ q[2] = "hold"
        BY <2>1
      <4> QED BY <4>1, Zenon DEF Reads, At
    <3>3. cache[d].hold.read \in BOOLEAN
      BY <2>4, MessageTypes
    <3> QED BY <2>2, <3>1, <3>2, <3>3
  <2>6. Home(p)' = d /\ LineOf(p)' = req[d].line /\ Reads(p)' = TRUE
    BY <2>1 DEF Home, LineOf, Reads
  <2>7. Same(p, q)
    BY <2>1, <2>3, <2>5, <2>6 DEF Same
  <2> QED BY <2>1, <2>7
<1> QED BY <1>1, <1>2, <1>3, Flow

\* Nothing gets doubled.
LEMMA OriginsDiffer ==
  ASSUME Inv, NEW wait, NEW sig, NEW issue, Moves(wait, sig, issue),
         NEW p \in Place, NEW r \in Place, Going(p)', Going(r)', Origin(sig, p) = Origin(sig, r)
  PROVE  p = r
<1> DEFINE q == Origin(sig, p)
<1>1. /\ Stays(wait, sig, p, q) \/ Arrives(sig, p, q) \/ Fetched(sig, p, q)
      /\ Stays(wait, sig, r, q) \/ Arrives(sig, r, q) \/ Fetched(sig, r, q)
  BY Flow
<1> HIDE DEF q
<1>2. ASSUME NEW t \in Place
      PROVE  /\ t = <<t[1], t[2]>> /\ t[1] \in Cpu /\ t[2] \in {"hold", "stall", "mem"}
             /\ Arrives(sig, t, q) => /\ q[1] \in Cpu
                                      /\ q[2] = "hold" => sig[q[1]].ready /\ ~LastHop(cache[q[1]].hold)
                                      /\ q[2] # "mem"
                                      /\ t[2] = "hold" => sig[t[1]].ready /\ t[1] = NextCpu(q[1])
                                      /\ t[2] = "stall" => t[1] = q[1] /\ ~sig[NextCpu(t[1])].ready
                                      /\ t[2] # "mem"
             /\ Fetched(sig, t, q) => /\ q = <<q[1], "hold">> /\ t = <<q[1], "mem">>
                                      /\ q[1] \in Cpu /\ sig[q[1]].ready /\ LastHop(cache[q[1]].hold)
             /\ Stays(wait, sig, t, q) => /\ q = t /\ t[2] # "stall"
                                          /\ t[2] = "hold" => ~sig[t[1]].ready
  <2>1. t = <<t[1], t[2]>> /\ t[1] \in Cpu /\ t[2] \in {"hold", "stall", "mem"}
    BY DEF Place
  <2>2. ASSUME Arrives(sig, t, q)
        PROVE  /\ q[1] \in Cpu
               /\ q[2] = "hold" => sig[q[1]].ready /\ ~LastHop(cache[q[1]].hold)
               /\ q[2] # "mem"
               /\ t[2] = "hold" => sig[t[1]].ready /\ t[1] = NextCpu(q[1])
               /\ t[2] = "stall" => t[1] = q[1] /\ ~sig[NextCpu(t[1])].ready
               /\ t[2] # "mem"
    <3>1. PICK o : Leaves(q[1], sig[q[1]], o, q)
      BY <2>2, Zenon DEF Arrives
    <3>2. q[2] # "mem" /\ (q[2] = "hold" => sig[q[1]].ready /\ ~LastHop(cache[q[1]].hold))
      BY <3>1 DEF Leaves, Forwards
    <3> QED BY <2>2, <3>2, Zenon DEF Arrives
  <2>3. ASSUME Fetched(sig, t, q)
        PROVE  /\ q = <<q[1], "hold">> /\ t = <<q[1], "mem">>
               /\ q[1] \in Cpu /\ sig[q[1]].ready /\ LastHop(cache[q[1]].hold)
    <3>1. q = <<q[1], "hold">> /\ t = <<q[1], "mem">> /\ q[1] \in Cpu /\ sig[q[1]].ready
          /\ cache[q[1]].state = "REPLY"
      BY <2>3, Zenon DEF Fetched, Fetches
    <3> QED BY <3>1 DEF Inv, Serving
  <2>4. ASSUME Stays(wait, sig, t, q)
        PROVE  q = t /\ t[2] # "stall" /\ (t[2] = "hold" => ~sig[t[1]].ready)
    BY <2>4 DEF Stays
  <2> QED BY <2>1, <2>2, <2>3, <2>4
<1>3. CASE Stays(wait, sig, p, q)
  BY <1>1, <1>2, <1>3
<1>4. CASE Fetched(sig, p, q)
  BY <1>1, <1>2, <1>4
<1>5. CASE Arrives(sig, p, q)
  <2>1. CASE Arrives(sig, r, q)
    BY <1>2, <1>5, <2>1
  <2>2. CASE Stays(wait, sig, r, q) \/ Fetched(sig, r, q)
    BY <1>2, <1>5, <2>2
  <2> QED BY <1>1, <2>1, <2>2
<1> QED BY <1>1, <1>3, <1>4, <1>5

-----------------------------------------------------------------------------
\* A cached request stays until it is done.
LEMMA RequestKept ==
  ASSUME Inv, NEW wait, NEW sig, NEW issue, Moves(wait, sig, issue),
         NEW n \in Cpu, Asks(n), ~sig[n].done
  PROVE  req'[n] = req[n] /\ Asks(n)'
<1>1. n \notin Free(sig, wait)
  BY DEF Free, Ends, BypassEnd, Inv, Serving, Asks
<1>2. req'[n] = IF n \in Free(sig, wait) THEN issue[n] ELSE req[n]
  BY NextRegisters
<1> QED BY <1>1, <1>2 DEF Asks

\* A cache that waits keeps its request.
LEMMA WaitingKept ==
  ASSUME Inv, NEW wait, NEW sig, NEW issue, Moves(wait, sig, issue),
         NEW n \in Cpu, cache[n].waitReply
  PROVE  cache[n].state # "CORE" /\ Asks(n) /\ ~sig[n].done /\ req'[n] = req[n] /\ Asks(n)'
<1>1. cache[n].state # "CORE" /\ Asks(n)
  BY DEF Inv, Serving
<1>2. sig[n] = Signals(n, wait)
  BY DEF Moves
<1>3. ~sig[n].done
  BY <1>1, <1>2, OnlyCore
<1> QED BY <1>1, <1>3, RequestKept

\* Only a message that has come round ends the wait, and it is gone then.
LEMMA EndsReply ==
  ASSUME Inv, NEW n \in Cpu, NEW wait, NEW s, s = Signals(n, wait), s.endReply
  PROVE  /\ cache[n].hold # None /\ LastHop(cache[n].hold) /\ s.ready /\ s.mem = "none"
         /\ \/ cache[n].state = "ACCEPT" /\ ~cache[n].hold.read /\ Nothing(s)
            \/ cache[n].state = "REPLY" /\ Takes(n, s)
<1>1. cache[n].state \in {"ACCEPT", "CORE", "SNOOP", "REPLY"}
  BY CacheTypes DEF Inv
<1>2. CASE cache[n].state = "ACCEPT"
  <2>1. Finished(n) /\ s.ready /\ Nothing(s)
    BY <1>2, AcceptSignals, Zenon
  <2> QED BY <1>2, <2>1 DEF Finished, Nothing
<1>3. CASE cache[n].state = "REPLY"
  <2>1. cache[n].hold # None /\ LastHop(cache[n].hold)
    BY <1>3 DEF Inv, Serving
  <2>2. Takes(n, s)
    BY <1>3, ReplySignals, Zenon DEF Fetches, Holds
  <2> QED BY <1>3, <2>1, <2>2 DEF Takes
<1>4. cache[n].state # "CORE" /\ cache[n].state # "SNOOP"
  BY CoreSignals, SnoopSignals, Zenon
<1> QED BY <1>1, <1>2, <1>3, <1>4

\* As long as what a cache waits for is under way, it waits.
LEMMA NotYet ==
  ASSUME Inv, NEW wait, NEW sig, NEW issue, Moves(wait, sig, issue),
         NEW p \in Place, Going(p)', NEW q, q = Origin(sig, p), Same(p, q), NEW d, d = Home(q)
  PROVE  /\ d \in Cpu /\ cache[d].waitReply /\ ~sig[d].endReply /\ ~MemReadEnd(d, wait)
         /\ cache'[d].waitReply
<1>1. q \in Place /\ Going(q) /\ d \in Cpu /\ cache[d].waitReply
  BY DEF Same, Inv, HomeWaits
<1>2. sig[d] = Signals(d, wait)
  BY <1>1 DEF Moves
<1>3. Stays(wait, sig, p, q) \/ Arrives(sig, p, q) \/ Fetched(sig, p, q)
  BY Flow
<1>4. ~sig[d].endReply
  <2> SUFFICES ASSUME sig[d].endReply PROVE FALSE
    OBVIOUS
  <2>1. cache[d].hold # None /\ LastHop(cache[d].hold) /\ sig[d].ready /\ sig[d].mem = "none"
    BY <1>1, <1>2, EndsReply
  <2>2. q = <<d, "hold">>
    <3>1. /\ <<d, "hold">> \in Place /\ Going(<<d, "hold">>) /\ Home(<<d, "hold">>) = d
      BY <1>1, <2>1, HomeTypes
    <3> QED BY <1>1, <3>1, Zenon DEF Inv, OneEach
  <2>3. CASE Stays(wait, sig, p, q)
    BY <2>1, <2>2, <2>3 DEF Stays
  <2>4. CASE Arrives(sig, p, q)
    <3>1. PICK o : Leaves(q[1], sig[q[1]], o, q)
      BY <2>4, Zenon DEF Arrives
    <3> QED BY <2>1, <2>2, <3>1 DEF Leaves, Forwards
  <2>5. CASE Fetched(sig, p, q)
    BY <2>1, <2>2, <2>5 DEF Fetched
  <2> QED BY <1>3, <2>3, <2>4, <2>5
<1>5. ~MemReadEnd(d, wait)
  <2> SUFFICES ASSUME MemReadEnd(d, wait) PROVE FALSE
    OBVIOUS
  <2>1. <<d, "mem">> \in Place /\ Going(<<d, "mem">>) /\ Home(<<d, "mem">>) = d
    BY <1>1 DEF Place, Going, Home, MemReadEnd
  <2>2. q = <<d, "mem">>
    BY <1>1, <2>1, Zenon DEF Inv, OneEach
  <2>3. CASE Stays(wait, sig, p, q)
    BY <2>2, <2>3 DEF Stays
  <2>4. CASE Arrives(sig, p, q)
    <3>1. PICK o : Leaves(q[1], sig[q[1]], o, q)
      BY <2>4, Zenon DEF Arrives
    <3> QED BY <2>2, <3>1 DEF Leaves
  <2>5. CASE Fetched(sig, p, q)
    BY <2>2, <2>5 DEF Fetched
  <2> QED BY <1>3, <2>3, <2>4, <2>5
<1>6. cache'[d].waitReply = (~(sig[d].endReply \/ MemReadEnd(d, wait))
                               /\ (sig[d].send # None \/ cache[d].waitReply))
  BY <1>1, NextRegisters
<1> QED BY <1>1, <1>4, <1>5, <1>6

\* A cache that sends waits for its message.
LEMMA SenderWaits ==
  ASSUME Inv, NEW wait, NEW sig, NEW issue, Moves(wait, sig, issue),
         NEW n \in Cpu, sig[n].send # None
  PROVE  /\ cache'[n].waitReply /\ req'[n] = req[n] /\ Asks(n)'
         /\ ~cache[n].waitReply /\ ~sig[n].endReply /\ ~MemReadEnd(n, wait)
<1>1. sig[n] = Signals(n, wait)
  BY DEF Moves
<1>2. /\ cache[n].state = "CORE" /\ Asks(n) /\ ~cache[n].waitReply
      /\ ~sig[n].endReply /\ ~sig[n].done
  BY <1>1, Sends
<1>3. ~MemReadEnd(n, wait)
  BY <1>2, CoreFacts DEF MemReadEnd
<1>4. cache'[n].waitReply = (~(sig[n].endReply \/ MemReadEnd(n, wait))
                               /\ (sig[n].send # None \/ cache[n].waitReply))
  BY NextRegisters
<1> QED BY <1>2, <1>3, <1>4, RequestKept

\* The next cycle has no more than one request of each cache, either.
LEMMA OneEachStays ==
  ASSUME Inv, NEW wait, NEW sig, NEW issue, Moves(wait, sig, issue)
  PROVE  OneEach' /\ HomeWaits'
<1>1. ASSUME NEW p \in Place, Going(p)', NEW q, q = Origin(sig, p)
      PROVE  /\ q[1] \in Cpu
             /\ q[2] = "core" => /\ sig[q[1]].send # None /\ Home(p)' = q[1]
                                 /\ q = <<q[1], "core">>
             /\ q[2] # "core" => Same(p, q) /\ Home(p)' = Home(q)
  <2>1. /\ q[1] \in Cpu
        /\ q[2] = "core" => New(p, q[1], sig[q[1]])
        /\ q[2] # "core" => Same(p, q)
    BY <1>1, Kept, Zenon
  <2>2. q[2] = "core" => q = <<q[1], "core">>
    <3> SUFFICES ASSUME q[2] = "core" PROVE q = <<q[1], "core">>
      OBVIOUS
    <3>1. Stays(wait, sig, p, q) \/ Arrives(sig, p, q) \/ Fetched(sig, p, q)
      BY <1>1, Flow
    <3>2. ~Stays(wait, sig, p, q) /\ ~Fetched(sig, p, q)
      BY DEF Stays, Fetched, Place
    <3>3. PICK o : Leaves(q[1], sig[q[1]], o, q)
      BY <3>1, <3>2, Zenon DEF Arrives
    <3> QED BY <3>3 DEF Leaves
  <2> QED BY <2>1, <2>2 DEF Same, New
<1>2. HomeWaits'
  <2> SUFFICES ASSUME NEW p \in Place, Going(p)'
               PROVE  Home(p)' \in Cpu /\ cache'[Home(p)'].waitReply
    BY DEF HomeWaits, Place
  <2> DEFINE q == Origin(sig, p)
  <2>1. CASE q[2] = "core"
    BY <1>1, <2>1, SenderWaits
  <2>2. CASE q[2] # "core"
    <3>1. Same(p, q) /\ Home(p)' = Home(q)
      BY <1>1, <2>2
    <3> QED BY <3>1, NotYet
  <2> QED BY <2>1, <2>2
<1>3. OneEach'
  <2> SUFFICES ASSUME NEW p \in Place, NEW r \in Place, Going(p)', Going(r)', Home(p)' = Home(r)'
               PROVE  p = r
    BY DEF OneEach, Place
  <2>0. PICK q, t : q = Origin(sig, p) /\ t = Origin(sig, r)
    OBVIOUS
  <2>1. q = t => p = r
    BY <2>0, OriginsDiffer
  <2>2. CASE q[2] = "core" /\ t[2] = "core"
    BY <1>1, <2>0, <2>1, <2>2
  <2>3. CASE q[2] = "core" /\ t[2] # "core"
    <3>1. sig[q[1]].send # None /\ Home(p)' = q[1] /\ q[1] \in Cpu
      BY <1>1, <2>0, <2>3
    <3>2. Same(r, t) /\ Home(r)' = Home(t)
      BY <1>1, <2>0, <2>3
    <3>3. cache[Home(t)].waitReply
      BY <2>0, <3>2, NotYet
    <3> QED BY <3>1, <3>2, <3>3, SenderWaits, ZenonT(60)
  <2>4. CASE q[2] # "core" /\ t[2] = "core"
    <3>1. sig[t[1]].send # None /\ Home(r)' = t[1] /\ t[1] \in Cpu
      BY <1>1, <2>0, <2>4
    <3>2. Same(p, q) /\ Home(p)' = Home(q)
      BY <1>1, <2>0, <2>4
    <3>3. cache[Home(q)].waitReply
      BY <2>0, <3>2, NotYet
    <3> QED BY <3>1, <3>2, <3>3, SenderWaits
  <2>5. CASE q[2] # "core" /\ t[2] # "core"
    <3>1. Same(p, q) /\ Same(r, t)
      BY <1>1, <2>0, <2>5
    <3>2. q \in Place /\ t \in Place /\ Going(q) /\ Going(t) /\ Home(q) = Home(t)
      BY <3>1 DEF Same
    <3>3. q = t
      BY <3>2, Zenon DEF Inv, OneEach
    <3> QED BY <2>1, <3>3
  <2> QED BY <2>2, <2>3, <2>4, <2>5
<1> QED BY <1>2, <1>3

-----------------------------------------------------------------------------
\* A line has its place in the SRAM.
LEMMA LineIndex == \A l \in Line : IndexOf[l] \in Index
BY DEF Index

\* What a store leaves is data of a line.
LEMMA StoredIsData ==
  ASSUME Inv, NEW n \in Cpu, cache[n].state = "CORE", cache[n].rd.state \in Valid, Commits(n)
  PROVE  Stored(n) \in Data
<1>1. req[n] \in Request /\ cache[n].rd \in Entry
  BY CoreFacts
<1>2. cache[n].rd.data \in Data /\ req[n].off \in Offset /\ req[n].data \in Value
  BY <1>1, EntryTypes DEF Request
<1>3. CASE req[n].lock
  <2>1. cache[n].monitor.mask # {}
    BY <1>3 DEF Commits, Mon!Commit, Mon!Known
  <2>2. cache[n].monitor.wr \in Data
    BY <2>1 DEF Inv, Serving
  <2> QED BY <1>2, <1>3, <2>2 DEF Stored, Mon!Update, Data
<1>4. CASE ~req[n].lock
  BY <1>2, <1>4 DEF Stored, Data
<1> QED BY <1>3, <1>4

\* The end of a memory read is its cache's own.
LEMMA ReadIsOwn ==
  ASSUME Inv, NEW n \in Cpu, cache[n].mem.op = "read"
  PROVE  /\ <<n, "mem">> \in Place /\ Going(<<n, "mem">>) /\ Home(<<n, "mem">>) = n
         /\ cache[n].waitReply /\ cache[n].mem.line = req[n].line /\ Asks(n)
         /\ req[n] \in Request /\ req[n].line \in Line
         /\ cache[n].sram[IndexOf[req[n].line]].state = "INVALID"
<1>1. <<n, "mem">> \in Place /\ Going(<<n, "mem">>) /\ Home(<<n, "mem">>) = n
  BY DEF Place, Going, Home
<1>2. LineOf(<<n, "mem">>) = cache[n].mem.line /\ Reads(<<n, "mem">>)
  BY DEF LineOf, Reads
<1>3. cache[n].waitReply
  BY <1>1 DEF Inv, HomeWaits
<1>4. /\ cache[n].mem.line = req[n].line
      /\ cache[n].sram[IndexOf[req[n].line]].state = "INVALID"
  BY <1>1, <1>2 DEF Inv, About
<1>5. Asks(n)
  BY <1>3 DEF Inv, Serving
<1>6. req[n] \in Request /\ req[n].line \in Line
  BY <1>5 DEF Inv, TypeOK, Asks, Request
<1> QED BY <1>1, <1>3, <1>4, <1>5, <1>6

\* What a cache gets from the ring is data of its line.
LEMMA TakenIsData ==
  ASSUME Inv, NEW n \in Cpu, cache[n].state = "REPLY", cache[n].hold.reply
  PROVE  /\ cache[n].hold \in Message /\ cache[n].hold.data \in Data
         /\ cache[n].waitReply /\ Asks(n) /\ req[n] \in Request /\ req[n].line \in Line
         /\ cache[n].hold.line = req[n].line
         /\ cache[n].hold.inval = (req[n].op = "write")
         /\ cache[n].sram[IndexOf[req[n].line]].state = "INVALID"
<1>1. cache[n].hold # None /\ LastHop(cache[n].hold) /\ cache[n].hold.read
  BY DEF Inv, Serving
<1>2. cache[n].hold \in Message
  BY <1>1, CacheTypes DEF Inv
<1>3. /\ <<n, "hold">> \in Place /\ Going(<<n, "hold">>) /\ Home(<<n, "hold">>) = n
      /\ cache[n].waitReply
  BY <1>1, HomeTypes
<1>4. LineOf(<<n, "hold">>) = cache[n].hold.line /\ At(<<n, "hold">>) = cache[n].hold
  BY DEF LineOf, At
<1>5. Reads(<<n, "hold">>)
  BY <1>1 DEF Reads, At
<1>6. /\ cache[n].hold.line = req[n].line
      /\ cache[n].hold.inval = (req[n].op = "write")
      /\ cache[n].sram[IndexOf[req[n].line]].state = "INVALID"
  BY <1>3, <1>4, <1>5 DEF Inv, About
<1>7. Asks(n)
  BY <1>3 DEF Inv, Serving
<1>8. req[n] \in Request /\ req[n].line \in Line
  BY <1>7 DEF Inv, TypeOK, Asks, Request
<1>9. cache[n].hold.data \in Data
  BY <1>2, MessageTypes
<1> QED BY <1>2, <1>3, <1>6, <1>7, <1>8, <1>9

\* The message a cache in SNOOP looks at.
LEMMA SnoopFacts ==
  ASSUME Inv, NEW n \in Cpu, cache[n].state = "SNOOP"
  PROVE  /\ cache[n].hold \in Message /\ cache[n].hold # None /\ ~LastHop(cache[n].hold)
         /\ cache[n].hold.line \in Line /\ cache[n].rd \in Entry
         /\ cache[n].rd.state # "INVALID" => cache[n].rd = cache[n].sram[IndexOf[cache[n].hold.line]]
<1>1. /\ cache[n].hold # None /\ ~LastHop(cache[n].hold) /\ cache[n].rd \in Entry
      /\ cache[n].rd.state # "INVALID" => cache[n].rd = cache[n].sram[IndexOf[cache[n].hold.line]]
  BY DEF Inv, Serving, AcceptSnoop
<1>2. cache[n].hold \in Message
  BY <1>1, CacheTypes DEF Inv
<1> QED BY <1>1, <1>2, MessageTypes

\* The writers of the SRAM: the memory, a message with data, the core and a
\* message of another cache.
FromMemory(n, wait, w) ==
  /\ MemReadEnd(n, wait) /\ cache[n].waitReply /\ cache[n].mem.line = req[n].line
  /\ w = [line |-> req[n].line, state |-> "EXCLUSIVE", data |-> ram[req[n].line]]

FromRing(n, s, w) ==
  /\ cache[n].state = "REPLY" /\ Takes(n, s)
  /\ w = [line |-> req[n].line, data |-> cache[n].hold.data,
          state |-> IF cache[n].hold.inval THEN "EXCLUSIVE" ELSE "SHARED"]

FromCore(n, s, w) ==
  /\ cache[n].state = "CORE"
  /\ \/ Replaces(n, s) /\ w = StateOnly(req[n].line, "INVALID")
     \/ Upgrades(n, s) /\ w = StateOnly(req[n].line, "EXCLUSIVE")
     \/ /\ StoreDone(n, s) /\ Commits(n)
        /\ w = [line |-> req[n].line, state |-> "MODIFIED", data |-> Stored(n)]

FromSnoop(n, s, w) ==
  /\ cache[n].state = "SNOOP" /\ s.ready /\ Hit(n)
  /\ \/ cache[n].hold.inval /\ w = StateOnly(cache[n].hold.line, "INVALID")
     \/ /\ Asked(n) /\ ~cache[n].hold.inval /\ cache[n].rd.state \in Owned
        /\ w = StateOnly(cache[n].hold.line, "SHARED")

\* Every state wants a value for every signal.
LEMMA WantedFields ==
  ASSUME Inv, NEW n \in Cpu
  PROVE  DOMAIN Wanted(n) = Fields
<1>1. cache[n].state \in {"ACCEPT", "CORE", "SNOOP", "REPLY"}
  BY CacheTypes DEF Inv
<1>2. CASE cache[n].state = "ACCEPT"
  BY <1>2, AcceptWanted
<1>3. CASE cache[n].state = "CORE"
  BY <1>3, CoreWanted, CoreFacts
<1>4. CASE cache[n].state = "SNOOP"
  BY <1>4, SnoopWanted
<1>5. CASE cache[n].state = "REPLY"
  BY <1>5, ReplyWanted
<1> QED BY <1>1, <1>2, <1>3, <1>4, <1>5

\* The controller writes only in a cycle in which no memory read ends.
LEMMA WritesAlone ==
  ASSUME Inv, NEW n \in Cpu, NEW wait, NEW s, s = Signals(n, wait), s.write # None
  PROVE  ~MemReadEnd(n, wait) /\ SramWrite(n, s, wait) = s.write
<1> DEFINE w == Wanted(n)
<1>0. w = Wanted(n) /\ DOMAIN w = Fields
  BY WantedFields
<1> HIDE DEF w
<1>1. /\ Retry(n, w, wait) => s.write = None
      /\ ~Retry(n, w, wait) => s.write = w.write
  BY <1>0, SignalsOf
<1>2. ~MemReadEnd(n, wait)
  BY <1>1 DEF Retry
<1> QED BY <1>2 DEF SramWrite

\* Nothing else writes the SRAM, and the memory comes first.
LEMMA Writes ==
  ASSUME Inv, NEW n \in Cpu, NEW wait, NEW s, s = Signals(n, wait),
         NEW w, w = SramWrite(n, s, wait)
  PROVE  w = None \/ FromMemory(n, wait, w) \/ FromRing(n, s, w) \/ FromCore(n, s, w)
           \/ FromSnoop(n, s, w)
<1>0. cache[n].state \in {"ACCEPT", "CORE", "SNOOP", "REPLY"}
  BY CacheTypes DEF Inv
<1>1. CASE MemReadEnd(n, wait)
  <2>1. cache[n].waitReply /\ cache[n].mem.line = req[n].line
    BY <1>1, ReadIsOwn DEF MemReadEnd
  <2> QED BY <1>1, <2>1 DEF SramWrite, FromMemory
<1>2. CASE ~MemReadEnd(n, wait)
  <2>1. w = s.write
    BY <1>2 DEF SramWrite
  <2>2. CASE cache[n].state = "ACCEPT"
    BY <2>1, <2>2, AcceptSignals, Zenon DEF Nothing
  <2>3. CASE cache[n].state = "CORE"
    <3>1. Nothing(s) \/ Serves(n, s)
      BY <2>3, CoreSignals, Zenon
    <3>2. CASE Nothing(s) \/ Misses(n, s) \/ LoadDone(n, s)
      BY <2>1, <3>2, Zenon DEF Nothing, Misses, LoadDone
    <3>3. CASE Replaces(n, s) \/ Upgrades(n, s)
      BY <2>1, <2>3, <3>3, Zenon DEF Replaces, Upgrades, FromCore
    <3>4. CASE StoreDone(n, s)
      <4>1. w = IF Commits(n)
                  THEN [line |-> req[n].line, state |-> "MODIFIED", data |-> Stored(n)] ELSE None
        BY <2>1, <3>4, Zenon DEF StoreDone
      <4>2. w = None \/ FromCore(n, s, w)
        BY <2>3, <3>4, <4>1, Zenon DEF FromCore
      <4> QED BY <4>2
    <3> QED BY <3>1, <3>2, <3>3, <3>4, Zenon DEF Serves
  <2>4. CASE cache[n].state = "SNOOP"
    <3>1. Nothing(s) \/ Snoops(n, s)
      BY <2>4, SnoopSignals, Zenon
    <3>2. CASE Nothing(s)
      BY <2>1, <3>2 DEF Nothing
    <3>3. CASE Snoops(n, s)
      <4>1. /\ s.ready
            /\ w = CASE Hit(n) /\ cache[n].hold.inval -> StateOnly(cache[n].hold.line, "INVALID")
                     [] Asked(n) /\ ~cache[n].hold.inval /\ cache[n].rd.state \in Owned
                          -> StateOnly(cache[n].hold.line, "SHARED")
                     [] OTHER -> None
        BY <2>1, <3>3, Zenon DEF Snoops
      <4>2. Asked(n) => Hit(n)
        BY DEF Asked
      <4>3. w = None \/ FromSnoop(n, s, w)
        BY <2>4, <4>1, <4>2 DEF FromSnoop
      <4> QED BY <4>3
    <3> QED BY <3>1, <3>2, <3>3
  <2>5. CASE cache[n].state = "REPLY"
    <3>1. Takes(n, s) \/ Fetches(n, s) \/ Holds(n, s)
      BY <2>5, ReplySignals, Zenon
    <3>2. CASE Takes(n, s)
      BY <2>1, <2>5, <3>2, Zenon DEF Takes, FromRing
    <3>3. CASE Fetches(n, s) \/ Holds(n, s)
      BY <2>1, <3>3, Zenon DEF Fetches, Holds, Nothing
    <3> QED BY <3>1, <3>2, <3>3
  <2> QED BY <1>0, <2>2, <2>3, <2>4, <2>5
<1> QED BY <1>1, <1>2

-----------------------------------------------------------------------------
\* What a cycle makes of an entry of the SRAM.
Loaded(n, new) ==
  /\ cache[n].waitReply /\ new.line = req[n].line /\ new.data \in Data
  /\ new.state \in {"EXCLUSIVE", "SHARED"}
Dropped(old, new) == new = [line |-> old.line, state |-> "INVALID", data |-> None]
Restated(old, state, new) == new = [line |-> old.line, state |-> state, data |-> old.data]
Modified(n, new) == new = [line |-> req[n].line, state |-> "MODIFIED", data |-> Stored(n)]

\* A valid entry in another valid state is one.
LEMMA RestatedIsEntry ==
  ASSUME NEW old \in Entry, old.state \in Valid, NEW st \in Valid, NEW new, Restated(old, st, new)
  PROVE  new \in Entry
<1>1. old \in [line : Line, state : Valid, data : Data]
  BY DEF Entry, Valid, Owned
<1>2. old.line \in Line /\ old.data \in Data
  BY <1>1
<1>3. new \in [line : Line, state : Valid, data : Data]
  BY <1>2 DEF Restated
<1> QED BY <1>3 DEF Entry

\* So is one that is dropped.
LEMMA DroppedIsEntry ==
  ASSUME NEW old, old.line \in Line \cup {None}, NEW new, Dropped(old, new)
  PROVE  new \in Entry
BY DEF Dropped, Entry

\* The effect of a write on an entry.
LEMMA EntryEffect ==
  ASSUME Inv, NEW n \in Cpu, NEW w, NEW i \in Index,
         NEW new, new = NextSram(n, w)[i], NEW old, old = cache[n].sram[i]
  PROVE  /\ w = None \/ IndexOf[w.line] # i => new = old
         /\ w # None /\ IndexOf[w.line] = i =>
              new = [line |-> IF w.data = None THEN old.line ELSE w.line,
                     state |-> w.state,
                     data |-> IF w.state = "INVALID" \/ w.data # None THEN w.data ELSE old.data]
<1>1. cache[n].sram \in [Index -> Entry]
  BY CacheTypes DEF Inv
<1>2. CASE w = None
  BY <1>2 DEF NextSram
<1>3. CASE w # None
  <2> DEFINE e == [line |-> IF w.data = None THEN cache[n].sram[IndexOf[w.line]].line ELSE w.line,
                   state |-> w.state,
                   data |-> IF w.state = "INVALID" \/ w.data # None
                              THEN w.data ELSE cache[n].sram[IndexOf[w.line]].data]
  <2>1. NextSram(n, w) = [cache[n].sram EXCEPT ![IndexOf[w.line]] = e]
    BY <1>3 DEF NextSram
  <2> HIDE DEF e
  <2>2. new = IF i = IndexOf[w.line] THEN e ELSE old
    BY <1>1, <2>1
  <2> QED BY <1>3, <2>2 DEF e
<1> QED BY <1>2, <1>3

\* What a cycle can make of entry i of cache n, and in which state.
EntryStep(n, wait, s, i, old, new) ==
  \/ new = old
  \/ /\ i = IndexOf[req[n].line] /\ MemReadEnd(n, wait) /\ cache[n].mem.line = req[n].line
     /\ Loaded(n, new) /\ new.state = "EXCLUSIVE" /\ new.data = ram[req[n].line]
     /\ old.state = "INVALID"
  \/ /\ i = IndexOf[req[n].line] /\ cache[n].state = "REPLY" /\ cache[n].hold.reply
     /\ Loaded(n, new) /\ new.state = (IF cache[n].hold.inval THEN "EXCLUSIVE" ELSE "SHARED")
     /\ new.data = cache[n].hold.data /\ old.state = "INVALID" /\ s.endReply
  \/ /\ i = IndexOf[req[n].line] /\ cache[n].state = "CORE" /\ Replaces(n, s)
     /\ Dropped(old, new)
  \/ /\ i = IndexOf[cache[n].hold.line] /\ cache[n].state = "SNOOP" /\ s.ready /\ Hit(n)
     /\ cache[n].hold.inval /\ Dropped(old, new)
  \/ /\ i = IndexOf[req[n].line] /\ cache[n].state = "CORE" /\ Upgrades(n, s)
     /\ old.line = req[n].line /\ old.state = "SHARED" /\ Restated(old, "EXCLUSIVE", new)
  \/ /\ i = IndexOf[req[n].line] /\ cache[n].state = "CORE" /\ StoreDone(n, s) /\ Commits(n)
     /\ old.line = req[n].line /\ old.state \in Owned /\ Modified(n, new)
  \/ /\ i = IndexOf[cache[n].hold.line] /\ cache[n].state = "SNOOP" /\ s.ready /\ Asked(n)
     /\ ~cache[n].hold.inval /\ old.line = cache[n].hold.line /\ old.state \in Owned
     /\ Restated(old, "SHARED", new)

\* Nothing else becomes of an entry.
LEMMA Entries ==
  ASSUME Inv, NEW n \in Cpu, NEW wait, NEW s, s = Signals(n, wait), NEW i \in Index,
         NEW w, w = SramWrite(n, s, wait),
         NEW new, new = NextSram(n, w)[i], NEW old, old = cache[n].sram[i]
  PROVE  EntryStep(n, wait, s, i, old, new) /\ new \in Entry
<1>0. /\ w = None \/ IndexOf[w.line] # i => new = old
      /\ w # None /\ IndexOf[w.line] = i =>
           new = [line |-> IF w.data = None THEN old.line ELSE w.line,
                  state |-> w.state,
                  data |-> IF w.state = "INVALID" \/ w.data # None THEN w.data ELSE old.data]
  BY EntryEffect
<1>a. old \in Entry
  BY CacheTypes DEF Inv
<1>b. /\ old.line \in Line \cup {None} /\ old.state \in Valid \cup {"INVALID"}
      /\ old.state \in Valid => old.line \in Line /\ old.data \in Data
      /\ old.state = "INVALID" => old.data = None
  BY <1>a, EntryTypes
<1>c. None \notin Data
  BY NoneAssumption
<1>1. CASE w = None \/ IndexOf[w.line] # i
  BY <1>0, <1>1, <1>a DEF EntryStep
<1>2. CASE w # None /\ IndexOf[w.line] = i
  <2>0. new = [line |-> IF w.data = None THEN old.line ELSE w.line,
               state |-> w.state,
               data |-> IF w.state = "INVALID" \/ w.data # None THEN w.data ELSE old.data]
    BY <1>0, <1>2
  <2>1. CASE FromMemory(n, wait, w)
    <3>1. /\ cache[n].waitReply /\ cache[n].mem.line = req[n].line /\ MemReadEnd(n, wait)
          /\ w = [line |-> req[n].line, state |-> "EXCLUSIVE", data |-> ram[req[n].line]]
      BY <2>1 DEF FromMemory
    <3>2. /\ req[n].line \in Line
          /\ cache[n].sram[IndexOf[req[n].line]].state = "INVALID"
      BY <3>1, ReadIsOwn DEF MemReadEnd
    <3>3. ram[req[n].line] \in Data
      BY <3>2 DEF Inv, TypeOK
    <3>4. new = [line |-> req[n].line, state |-> "EXCLUSIVE", data |-> ram[req[n].line]]
      BY <1>c, <2>0, <3>1, <3>3
    <3>5. new \in Entry
      BY <3>2, <3>3, <3>4 DEF Entry, Valid, Owned
    <3>6. Loaded(n, new)
      BY <3>1, <3>3, <3>4 DEF Loaded
    <3> QED BY <1>2, <3>1, <3>2, <3>4, <3>5, <3>6 DEF EntryStep
  <2>2. CASE FromRing(n, s, w)
    <3> DEFINE st == IF cache[n].hold.inval THEN "EXCLUSIVE" ELSE "SHARED"
    <3>1. /\ cache[n].state = "REPLY" /\ cache[n].hold.reply /\ s.endReply
          /\ w = [line |-> req[n].line, data |-> cache[n].hold.data, state |-> st]
      BY <2>2 DEF FromRing, Takes
    <3>2. /\ cache[n].hold.data \in Data /\ cache[n].waitReply /\ req[n].line \in Line
          /\ cache[n].sram[IndexOf[req[n].line]].state = "INVALID"
      BY <3>1, TakenIsData
    <3>3. st \in {"EXCLUSIVE", "SHARED"}
      OBVIOUS
    <3> HIDE DEF st
    <3>4. new = [line |-> req[n].line, data |-> cache[n].hold.data, state |-> st]
      BY <1>c, <2>0, <3>1, <3>2
    <3>5. new \in Entry
      BY <3>2, <3>3, <3>4 DEF Entry, Valid, Owned
    <3>6. Loaded(n, new)
      BY <3>2, <3>3, <3>4 DEF Loaded
    <3> QED BY <1>2, <3>1, <3>2, <3>4, <3>5, <3>6 DEF EntryStep, st
  <2>3. CASE FromCore(n, s, w)
    <3>1. /\ cache[n].state = "CORE" /\ cache[n].rd = cache[n].sram[IndexOf[req[n].line]]
          /\ req[n].line \in Line
      BY <2>3, CoreFacts DEF FromCore
    <3>2. CASE Replaces(n, s) /\ w = StateOnly(req[n].line, "INVALID")
      <4>1. i = IndexOf[req[n].line] /\ Dropped(old, new)
        BY <1>2, <2>0, <3>2 DEF StateOnly, Dropped
      <4>2. new \in Entry
        BY <1>b, <4>1, DroppedIsEntry
      <4> QED BY <3>1, <3>2, <4>1, <4>2 DEF EntryStep
    <3>3. CASE Upgrades(n, s) /\ w = StateOnly(req[n].line, "EXCLUSIVE")
      <4>1. i = IndexOf[req[n].line] /\ Restated(old, "EXCLUSIVE", new)
        BY <1>2, <2>0, <3>3 DEF StateOnly, Restated
      <4>2. old.state = "SHARED" /\ old.line = req[n].line
        BY <3>1, <3>3, <4>1 DEF Upgrades
      <4>3. new \in Entry
        <5>1. old.state \in Valid /\ "EXCLUSIVE" \in Valid
          BY <4>2 DEF Valid, Owned
        <5> QED BY <5>1, <1>a, <4>1, RestatedIsEntry
      <4> QED BY <3>1, <3>3, <4>1, <4>2, <4>3 DEF EntryStep
    <3>4. CASE /\ StoreDone(n, s) /\ Commits(n)
               /\ w = [line |-> req[n].line, state |-> "MODIFIED", data |-> Stored(n)]
      <4>1. i = IndexOf[req[n].line]
        BY <1>2, <3>4
      <4>2. old.state \in Owned /\ old.line = req[n].line
        BY <3>1, <3>4, <4>1 DEF StoreDone
      <4>3. Stored(n) \in Data
        BY <3>1, <3>4, <4>1, <4>2, StoredIsData DEF Valid
      <4>4. Modified(n, new)
        BY <1>c, <2>0, <3>4, <4>3 DEF Modified
      <4>5. new \in Entry
        BY <3>1, <4>3, <4>4 DEF Modified, Entry, Valid, Owned
      <4> QED BY <3>1, <3>4, <4>1, <4>2, <4>4, <4>5 DEF EntryStep
    <3> QED BY <2>3, <3>2, <3>3, <3>4 DEF FromCore
  <2>4. CASE FromSnoop(n, s, w)
    <3>1. cache[n].state = "SNOOP" /\ s.ready /\ Hit(n)
      BY <2>4 DEF FromSnoop
    <3>2. cache[n].rd.state # "INVALID" => cache[n].rd = cache[n].sram[IndexOf[cache[n].hold.line]]
      BY <3>1, SnoopFacts
    <3>3. CASE cache[n].hold.inval /\ w = StateOnly(cache[n].hold.line, "INVALID")
      <4>1. i = IndexOf[cache[n].hold.line] /\ Dropped(old, new)
        BY <1>2, <2>0, <3>3 DEF StateOnly, Dropped
      <4>2. new \in Entry
        BY <1>b, <4>1, DroppedIsEntry
      <4> QED BY <3>1, <3>3, <4>1, <4>2 DEF EntryStep
    <3>4. CASE /\ Asked(n) /\ ~cache[n].hold.inval /\ cache[n].rd.state \in Owned
               /\ w = StateOnly(cache[n].hold.line, "SHARED")
      <4>1. i = IndexOf[cache[n].hold.line] /\ Restated(old, "SHARED", new)
        BY <1>2, <2>0, <3>4 DEF StateOnly, Restated
      <4>2. old.state \in Owned /\ old.line = cache[n].hold.line
        BY <3>1, <3>2, <3>4, <4>1 DEF Owned, Hit
      <4>3. new \in Entry
        <5>1. old.state \in Valid /\ "SHARED" \in Valid
          BY <4>2 DEF Valid
        <5> QED BY <5>1, <1>a, <4>1, RestatedIsEntry
      <4> QED BY <3>1, <3>4, <4>1, <4>2, <4>3 DEF EntryStep
    <3> QED BY <2>4, <3>3, <3>4 DEF FromSnoop
  <2> QED BY <1>2, <2>1, <2>2, <2>3, <2>4, Writes
<1> QED BY <1>1, <1>2

\* So do the entries of the SRAM in a cycle.
LEMMA EntryMoves ==
  ASSUME Inv, NEW wait, NEW sig, NEW issue, Moves(wait, sig, issue), NEW n \in Cpu,
         NEW i \in Index, NEW new, new = cache'[n].sram[i], NEW old, old = cache[n].sram[i]
  PROVE  EntryStep(n, wait, sig[n], i, old, new) /\ new \in Entry
<1>1. sig[n] = Signals(n, wait) /\ cache'[n].sram = NextSram(n, SramWrite(n, sig[n], wait))
  BY NextRegisters
<1> QED BY <1>1, Entries

-----------------------------------------------------------------------------
\* Only what a cache waits for makes an INVALID entry valid.
LEMMA StaysInvalid ==
  ASSUME Inv, NEW wait, NEW sig, NEW issue, Moves(wait, sig, issue), NEW n \in Cpu,
         NEW i \in Index, cache[n].sram[i].state = "INVALID",
         ~MemReadEnd(n, wait), ~sig[n].endReply
  PROVE  cache'[n].sram[i].state = "INVALID"
<1>1. EntryStep(n, wait, sig[n], i, cache[n].sram[i], cache'[n].sram[i])
  BY EntryMoves
<1> QED BY <1>1 DEF EntryStep, Dropped, Owned

\* What is asked for stays out of its cache until it is there.
LEMMA AboutStays ==
  ASSUME Inv, NEW wait, NEW sig, NEW issue, Moves(wait, sig, issue)
  PROVE  About'
<1> SUFFICES ASSUME NEW p \in Place, Going(p)'
             PROVE  /\ LineOf(p)' = req'[Home(p)'].line
                    /\ p[2] # "mem" => At(p)'.inval = (req'[Home(p)'].op = "write")
                    /\ Reads(p)' => cache'[Home(p)'].sram[IndexOf[LineOf(p)']].state = "INVALID"
  BY DEF About, Place
<1>0. PICK q : q = Origin(sig, p)
  OBVIOUS
<1>1. /\ q[1] \in Cpu
      /\ q[2] = "core" => New(p, q[1], sig[q[1]])
      /\ q[2] # "core" => Same(p, q)
  BY <1>0, Kept
<1>2. CASE q[2] = "core"
  <2> DEFINE d == q[1]
             s == sig[d]
  <2>0. d \in Cpu /\ s = Signals(d, wait)
    BY <1>1 DEF Moves
  <2>1. /\ s.send # None /\ Home(p)' = d /\ LineOf(p)' = req[d].line /\ p[2] # "mem"
        /\ At(p)'.read = s.send[1] /\ At(p)'.inval = s.send[2]
    BY <1>1, <1>2 DEF New
  <2>2. /\ req'[d] = req[d] /\ ~s.endReply /\ ~MemReadEnd(d, wait)
    BY <1>1, <2>1, SenderWaits
  <2>3. Reads(p)' = s.send[1]
    BY <2>1, Zenon DEF Reads
  <2> HIDE DEF d, s
  <2>4. /\ cache[d].state = "CORE" /\ req[d].line \in Line /\ req[d] \in Request
        /\ Misses(d, s) \/ Upgrades(d, s)
    BY <2>0, <2>1, Sends
  <2>5. cache[d].rd = cache[d].sram[IndexOf[req[d].line]]
    BY <2>0, <2>4, CoreFacts
  <2>6. CASE Misses(d, s)
    <3>1. cache[d].sram[IndexOf[req[d].line]].state = "INVALID"
      BY <2>5, <2>6 DEF Misses
    <3>2. cache'[d].sram[IndexOf[req[d].line]].state = "INVALID"
      BY <2>0, <2>2, <2>4, <3>1, LineIndex, StaysInvalid DEF s
    <3>3. s.send[2] = (req[d].op = "write")
      <4>1. PICK v \in BOOLEAN : v = (req[d].op = "write")
        OBVIOUS
      <4>2. s.send = <<TRUE, v>>
        BY <2>6, <4>1, Zenon DEF Misses
      <4>3. s.send[2] = v
        BY <4>2
      <4> QED BY <4>1, <4>3, Zenon
    <3>4. At(p)'.inval = (req'[d].op = "write")
      BY <2>1, <2>2, <3>3, Zenon
    <3> QED BY <2>1, <2>2, <3>2, <3>4
  <2>7. CASE Upgrades(d, s)
    <3>1. s.send = <<FALSE, TRUE>> /\ req[d].op = "write"
      BY <2>7 DEF Upgrades
    <3>2. At(p)'.inval = TRUE /\ ~Reads(p)'
      BY <2>1, <2>3, <3>1
    <3> QED BY <2>1, <2>2, <3>1, <3>2
  <2> QED BY <2>4, <2>6, <2>7
<1>3. CASE q[2] # "core"
  <2> DEFINE d == Home(q)
  <2>1. /\ Same(p, q) /\ q \in Place /\ Going(q) /\ Home(p)' = d /\ LineOf(p)' = LineOf(q)
        /\ Reads(p)' = Reads(q)
        /\ p[2] # "mem" => q[2] # "mem" /\ At(p)'.inval = At(q).inval
    BY <1>1, <1>3 DEF Same
  <2>2. d \in Cpu /\ cache[d].waitReply /\ ~sig[d].endReply /\ ~MemReadEnd(d, wait)
    BY <1>0, <2>1, NotYet
  <2>3. req'[d] = req[d] /\ Asks(d)
    BY <2>2, WaitingKept
  <2>4. /\ LineOf(q) = req[d].line
        /\ q[2] # "mem" => At(q).inval = (req[d].op = "write")
        /\ Reads(q) => cache[d].sram[IndexOf[LineOf(q)]].state = "INVALID"
    BY <2>1 DEF Inv, About
  <2>5. req[d].line \in Line
    BY <2>2, <2>3 DEF Inv, TypeOK, Asks, Request
  <2> HIDE DEF d
  <2>6. Reads(p)' => cache'[d].sram[IndexOf[LineOf(p)']].state = "INVALID"
    <3> SUFFICES ASSUME Reads(p)' PROVE cache'[d].sram[IndexOf[LineOf(p)']].state = "INVALID"
      OBVIOUS
    <3>1. cache[d].sram[IndexOf[LineOf(q)]].state = "INVALID"
      BY <2>1, <2>4
    <3> QED BY <2>1, <2>2, <2>4, <2>5, <3>1, LineIndex, StaysInvalid
  <2>7. p[2] # "mem" => At(p)'.inval = (req'[d].op = "write")
    BY <2>1, <2>3, <2>4, Zenon
  <2> QED BY <2>1, <2>3, <2>4, <2>6, <2>7
<1> QED BY <1>2, <1>3

\* The monitor's data are there as long as a word is linked.
LEMMA MonitorNext ==
  ASSUME Inv, NEW n \in Cpu, NEW wait, NEW s, s = Signals(n, wait),
         NEW m, m = NextMonitor(n, s)
  PROVE  m \in Mon!Monitor /\ (m.mask # {} => m.wr \in Data)
<1> DEFINE c == cache[n].monitor
<1>1. c \in Mon!Monitor /\ (c.mask # {} => c.wr \in Data)
  BY CacheTypes DEF Inv, Serving
<1>2. CASE s.monitor = "none"
  BY <1>1, <1>2 DEF NextMonitor
<1>3. CASE s.monitor # "none"
  <2>1. cache[n].state = "CORE"
    BY <1>3, OnlyCore
  <2>2. Nothing(s) \/ Serves(n, s)
    BY <2>1, CoreSignals, Zenon
  <2>3. (LoadDone(n, s) /\ s.monitor = "acquire") \/ (StoreDone(n, s) /\ s.monitor = "release")
    BY <1>3, <2>2, Zenon DEF Nothing, Serves, Replaces, Misses, Upgrades, LoadDone, StoreDone
  <2>4. req[n] \in Request /\ req[n].line \in Line /\ cache[n].rd \in Entry
    BY <2>1, CoreFacts
  <2>5. req[n].off \in Offset /\ req[n].data \in Value
    BY <2>4 DEF Request
  <2>6. CASE LoadDone(n, s) /\ s.monitor = "acquire"
    <3>1. cache[n].rd.data \in Data
      BY <2>4, <2>6, EntryTypes DEF LoadDone
    <3>2. m = Mon!Acquire(c, req[n].line, req[n].off, cache[n].rd.data)
      BY <2>6 DEF NextMonitor
    <3> DEFINE more == Mon!Hit(c, req[n].line) /\ ~Mon!Known(c, req[n].off) /\ ~c.dirty
               mask == IF more THEN c.mask \cup {req[n].off} ELSE {req[n].off}
               rd == IF more /\ c.mask # {} THEN c.rd ELSE cache[n].rd.data
               wr == IF more /\ c.mask # {} THEN c.wr ELSE cache[n].rd.data
    <3>3. m = [line |-> req[n].line, dirty |-> FALSE, mask |-> mask, rd |-> rd, wr |-> wr]
      BY <3>2 DEF Mon!Acquire
    <3>4. mask \in SUBSET Offset /\ rd \in Data \cup {None} /\ wr \in Data
      BY <1>1, <2>5, <3>1 DEF Mon!Monitor, Mon!Data, Data
    <3> HIDE DEF mask, rd, wr
    <3> QED BY <2>4, <3>3, <3>4 DEF Mon!Monitor, Mon!Data, Data
  <2>7. CASE StoreDone(n, s) /\ s.monitor = "release"
    <3>1. m = Mon!Release(c, req[n].line, req[n].off, req[n].data)
      BY <2>7 DEF NextMonitor
    <3> DEFINE left == IF Mon!Hit(c, req[n].line) /\ Mon!Known(c, req[n].off)
                         THEN c.mask \ {req[n].off} ELSE {}
               wr == [c.wr EXCEPT ![req[n].off] = req[n].data]
    <3>2. CASE left = {}
      <4>1. m = [line |-> None, mask |-> {}, dirty |-> FALSE, rd |-> None, wr |-> None]
        BY <3>1, <3>2 DEF Mon!Release, Mon!ResetMonitor
      <4> QED BY <4>1 DEF Mon!Monitor
    <3>3. CASE left # {}
      <4>1. m = [c EXCEPT !.mask = left, !.dirty = TRUE, !.wr = wr]
        BY <3>1, <3>3 DEF Mon!Release, Mon!Update
      <4>2. c.wr \in Data /\ left \in SUBSET Offset
        BY <1>1, <3>3 DEF Mon!Monitor
      <4>3. wr \in Data
        BY <2>5, <4>2 DEF Data
      <4> HIDE DEF left, wr
      <4> QED BY <1>1, <4>1, <4>2, <4>3 DEF Mon!Monitor, Mon!Data, Data
    <3> QED BY <3>2, <3>3
  <2> QED BY <2>3, <2>6, <2>7
<1> QED BY <1>2, <1>3

-----------------------------------------------------------------------------
\* The next cycle has registers that agree with the states, too.
LEMMA ServingStays ==
  ASSUME Inv, NEW wait, NEW sig, NEW issue, Moves(wait, sig, issue)
  PROVE  Serving'
<1> SUFFICES ASSUME NEW n \in Cpu
             PROVE
    /\ cache'[n].state = "CORE" => /\ ~cache'[n].waitReply /\ Asks(n)'
                                   /\ cache'[n].rd = cache'[n].sram[IndexOf[req'[n].line]]
    /\ cache'[n].state = "REPLY" => /\ cache'[n].hold # None /\ LastHop(cache'[n].hold)
                                    /\ cache'[n].hold.read
    /\ cache'[n].state = "SNOOP" =>
         /\ AcceptSnoop(n)' /\ cache'[n].rd \in Entry
         /\ cache'[n].rd.state # "INVALID" => cache'[n].rd = cache'[n].sram[IndexOf[cache'[n].hold.line]]
    /\ cache'[n].waitReply => Asks(n)'
    /\ cache'[n].route = "BYPASS" => req'[n] # None /\ req'[n].line = IO
    /\ cache'[n].monitor.mask # {} => cache'[n].monitor.wr \in Data
  BY DEF Serving
<1>0. PICK s, ready, c : s = sig[n] /\ ready = sig[NextCpu(n)].ready /\ c = cache[n]
  OBVIOUS
<1>1. /\ s = Signals(n, wait)
      /\ cache'[n].state = NextState(n, ready)
      /\ cache'[n].waitReply = (~(s.endReply \/ MemReadEnd(n, wait))
                                  /\ (s.send # None \/ c.waitReply))
      /\ s.ready \/ cache'[n].hold = c.hold
      /\ cache'[n].rd = NextRd(n, NextState(n, ready))
      /\ cache'[n].route = NextRoute(n, wait)
      /\ cache'[n].monitor = NextMonitor(n, s)
      /\ req'[n] = IF n \in Free(sig, wait) THEN issue[n] ELSE req[n]
  BY <1>0, NextRegisters
<1>2. /\ c.sram \in [Index -> Entry] /\ c.hold \in Message \cup {None}
  BY <1>0, CacheTypes DEF Inv
<1>3. ASSUME NextState(n, ready) # "ACCEPT"
      PROVE  /\ c.state = "ACCEPT" /\ s.endReply = Finished(n) /\ Nothing(s)
             /\ s.ready = (c.hold = None \/ Finished(n) \/ PassesBy(n))
             /\ \A i \in Index : cache'[n].sram[i] # c.sram[i] =>
                  c.sram[i].state = "INVALID" /\ MemReadEnd(n, wait)
  <2>1. c.state = "ACCEPT"
    BY <1>0, <1>3 DEF NextState
  <2>2. /\ s.endReply = Finished(n) /\ Nothing(s)
        /\ s.ready = (c.hold = None \/ Finished(n) \/ PassesBy(n))
    BY <1>0, <1>1, <2>1, AcceptSignals
  <2>3. ASSUME NEW i \in Index, cache'[n].sram[i] # c.sram[i]
        PROVE  c.sram[i].state = "INVALID" /\ MemReadEnd(n, wait)
    <3>1. EntryStep(n, wait, s, i, c.sram[i], cache'[n].sram[i])
      BY <1>0, EntryMoves
    <3> QED BY <1>0, <2>1, <2>3, <3>1, Zenon DEF EntryStep
  <2> QED BY <2>1, <2>2, <2>3
<1>4. ASSUME cache'[n].state = "CORE"
      PROVE  /\ ~cache'[n].waitReply /\ Asks(n)'
             /\ cache'[n].rd = cache'[n].sram[IndexOf[req'[n].line]]
  <2>1. NextState(n, ready) = "CORE" /\ Asks(n) /\ ~c.waitReply
    BY <1>0, <1>1, <1>4 DEF NextState
  <2>2. Nothing(s)
    BY <1>3, <2>1
  <2>3. req'[n] = req[n] /\ Asks(n)'
    BY <1>0, <2>1, <2>2, RequestKept DEF Nothing
  <2>4. req[n].line \in Line
    BY <2>1 DEF Inv, TypeOK, Asks, Request
  <2>5. ~MemReadEnd(n, wait)
    BY <1>0, <2>1, ReadIsOwn DEF MemReadEnd
  <2>6. cache'[n].rd = c.sram[IndexOf[req[n].line]]
    BY <1>0, <1>1, <2>1 DEF NextRd
  <2>7. cache'[n].sram[IndexOf[req[n].line]] = c.sram[IndexOf[req[n].line]]
    BY <1>3, <2>1, <2>4, <2>5, LineIndex
  <2> QED BY <1>1, <2>1, <2>2, <2>3, <2>6, <2>7 DEF Nothing
<1>5. ASSUME cache'[n].state = "REPLY"
      PROVE  cache'[n].hold # None /\ LastHop(cache'[n].hold) /\ cache'[n].hold.read
  <2>1. NextState(n, ready) = "REPLY" /\ c.hold # None /\ LastHop(c.hold) /\ c.hold.read
    BY <1>0, <1>1, <1>5 DEF NextState
  <2>2. ~s.ready
    BY <1>0, <1>3, <2>1 DEF Finished, PassesBy
  <2> QED BY <1>1, <2>1, <2>2
<1>6. ASSUME cache'[n].state = "SNOOP"
      PROVE  /\ AcceptSnoop(n)' /\ cache'[n].rd \in Entry
             /\ cache'[n].rd.state # "INVALID" => cache'[n].rd = cache'[n].sram[IndexOf[cache'[n].hold.line]]
  <2>1. NextState(n, ready) = "SNOOP" /\ AcceptSnoop(n)
    BY <1>0, <1>1, <1>6 DEF NextState
  <2>2. c.hold # None /\ ~LastHop(c.hold) /\ (c.hold.inval \/ ~c.hold.reply)
    BY <1>0, <2>1 DEF AcceptSnoop
  <2>3. ~s.ready
    BY <1>0, <1>3, <2>1, <2>2 DEF Finished, PassesBy
  <2>4. cache'[n].hold = c.hold
    BY <1>1, <2>3
  <2>5. c.hold.line \in Line
    BY <1>2, <2>2, MessageTypes
  <2>6. cache'[n].rd = c.sram[IndexOf[c.hold.line]]
    BY <1>0, <1>1, <2>1 DEF NextRd
  <2>7. IndexOf[c.hold.line] \in Index
    BY <2>5, LineIndex
  <2>8. AcceptSnoop(n)'
    BY <2>2, <2>4 DEF AcceptSnoop
  <2> QED BY <1>2, <1>3, <2>1, <2>4, <2>6, <2>7, <2>8
<1>7. ASSUME cache'[n].waitReply PROVE Asks(n)'
  <2>1. CASE s.send # None
    BY <1>0, <2>1, SenderWaits
  <2>2. CASE c.waitReply
    BY <1>0, <2>2, WaitingKept
  <2> QED BY <1>1, <1>7, <2>1, <2>2
<1>8. ASSUME cache'[n].route = "BYPASS" PROVE req'[n] # None /\ req'[n].line = IO
  <2>1. req[n] # None /\ req[n].line = IO /\ ~BypassEnd(n, wait)
    BY <1>0, <1>1, <1>8 DEF NextRoute, BypassEnd, Inv, Serving
  <2>2. ~s.done
    <3>1. s.done => Asks(n)
      BY <1>1, OnlyCore, CoreFacts
    <3> QED BY <2>1, <3>1 DEF Asks
  <2>3. n \notin Free(sig, wait)
    BY <1>0, <2>1, <2>2 DEF Free, Ends
  <2> QED BY <1>1, <2>1, <2>3
<1>9. cache'[n].monitor.mask # {} => cache'[n].monitor.wr \in Data
  BY <1>1, MonitorNext
<1> QED BY <1>4, <1>5, <1>6, <1>7, <1>8, <1>9

\* The arbiter selects one of its ports.
LEMMA SelectTypes ==
  ASSUME TypeOK
  PROVE  Arbiter!Select \in 0 .. RingSize - 1
<1> DEFINE busy == {n \in Cpu : cache[n].route # "IDLE"}
<1>1. busy \subseteq 0 .. RingSize - 1
  BY SystemAssumption, SMT DEF Cpu, RingSize
<1>2. CASE lastHold \/ busy = {}
  BY <1>2 DEF Arbiter!Select, TypeOK
<1>3. CASE ~(lastHold \/ busy = {})
  <2> DEFINE Ah(p) == Arbiter!Ahead(p)
  <2>1. Arbiter!Select = CHOOSE p \in busy : \A q \in busy : Arbiter!Ahead(p) <= Arbiter!Ahead(q)
    BY <1>3 DEF Arbiter!Select, Arbiter!First
  <2>2. \E p \in busy : \A q \in busy : Arbiter!Ahead(p) <= Arbiter!Ahead(q)
    <3> DEFINE least == lastSelect
    <3>1. \A p \in busy : p \in {0, 1, 2, 3} /\ Arbiter!Ahead(p) \in 0 .. 3
      BY <1>1, SMT DEF Arbiter!Ahead, RingSize, TypeOK
    <3>2. PICK k \in 0 .. 3 : /\ \E p \in busy : Arbiter!Ahead(p) = k
                              /\ \A p \in busy : Arbiter!Ahead(p) >= k
      <4> DEFINE E(k) == \E p \in busy : Arbiter!Ahead(p) = k
      <4>1. E(0) \/ E(1) \/ E(2) \/ E(3)
        BY <1>3, <3>1
      <4>2. \A p \in busy : Arbiter!Ahead(p) \in 0 .. 3 /\ E(Arbiter!Ahead(p))
        BY <3>1
      <4> HIDE DEF E
      <4>3. \E k \in 0 .. 3 : E(k) /\ \A j \in 0 .. 3 : E(j) => j >= k
        BY <4>1
      <4>4. PICK k \in 0 .. 3 : E(k) /\ \A j \in 0 .. 3 : E(j) => j >= k
        BY <4>3
      <4> QED BY <4>2, <4>4 DEF E
    <3> QED BY <3>1, <3>2
  <2> HIDE DEF busy
  <2>3. Arbiter!Select \in busy
    BY <2>1, <2>2
  <2> QED BY <1>1, <2>3
<1> QED BY <1>2, <1>3

-----------------------------------------------------------------------------
\* The memory access of a cache after a cycle.
LEMMA MemNext ==
  ASSUME Inv, NEW n \in Cpu, NEW wait, NEW s, s = Signals(n, wait)
  PROVE  NextMem(n, s, wait) \in Access
<1>1. /\ s.mem \in {"none", "read", "write"}
      /\ s.mem = "read" => cache[n].state = "REPLY" /\ Fetches(n, s)
      /\ s.mem = "write" => cache[n].rd \in Entry /\ cache[n].rd.state = "MODIFIED"
  BY MemWants
<1>2. CASE s.mem = "write"
  <2>1. cache[n].rd.line \in Line /\ cache[n].rd.data \in Data
    BY <1>1, <1>2, EntryTypes DEF Valid, Owned
  <2>2. NextMem(n, s, wait) = [op |-> "write", line |-> cache[n].rd.line, data |-> cache[n].rd.data]
    BY <1>2 DEF NextMem
  <2> QED BY <2>1, <2>2 DEF Access
<1>3. CASE s.mem = "read"
  <2>1. cache[n].hold # None /\ LastHop(cache[n].hold)
    BY <1>1, <1>3 DEF Inv, Serving
  <2>2. Asks(n)
    BY <2>1, HomeTypes DEF Inv, Serving
  <2>3. req[n].line \in Line
    BY <2>2 DEF Inv, TypeOK, Asks, Request
  <2>4. NextMem(n, s, wait) = [op |-> "read", line |-> req[n].line, data |-> None]
    BY <1>3 DEF NextMem
  <2> QED BY <2>3, <2>4 DEF Access
<1>4. CASE s.mem = "none"
  <2>1. NextMem(n, s, wait) \in {NoAccess, cache[n].mem}
    BY <1>4 DEF NextMem
  <2>2. cache[n].mem \in Access
    BY CacheTypes DEF Inv
  <2> QED BY <2>1, <2>2 DEF Access, NoAccess
<1> QED BY <1>1, <1>2, <1>3, <1>4

\* The registers of a cache after a cycle.
LEMMA CacheNext ==
  ASSUME Inv, NEW wait, NEW sig, NEW issue, Moves(wait, sig, issue), NEW n \in Cpu
  PROVE  cache'[n] \in Cache
<1>0. PICK p, s, ready, out, before : /\ p = PrevCpu(n) /\ s = sig[n] /\ ready = sig[NextCpu(n)].ready
                                      /\ out = Out(n, s) /\ before = Out(p, sig[p])
  OBVIOUS
<1>1. p \in Cpu
  BY <1>0, RingOrder
<1>2. s = Signals(n, wait) /\ sig[p] = Signals(p, wait)
  BY <1>0, <1>1, Zenon DEF Moves
<1>3. out \in Message \cup {None} /\ before \in Message \cup {None}
  <2>1. out # None => out \in Message
    BY <1>0, <1>2, OutIs
  <2>2. before # None => before \in Message
    BY <1>0, <1>1, <1>2, OutIs
  <2> QED BY <2>1, <2>2
<1>4. In(n, before) \in Message \cup {None}
  <2>1. CASE before = None
    BY <2>1 DEF In
  <2>2. CASE before # None
    BY <1>3, <2>2, InIs
  <2> QED BY <2>1, <2>2
<1>5. PICK state, waitReply, locked, hold, stall, sram, rd, mem, route, monitor :
        /\ state = NextState(n, ready)
        /\ waitReply = (~(s.endReply \/ MemReadEnd(n, wait)) /\ (s.send # None \/ cache[n].waitReply))
        /\ locked = NextLocked(n, s)
        /\ hold = (IF s.ready THEN In(n, before) ELSE cache[n].hold)
        /\ stall = (IF ready THEN None ELSE out)
        /\ sram = NextSram(n, SramWrite(n, s, wait))
        /\ rd = NextRd(n, NextState(n, ready))
        /\ mem = NextMem(n, s, wait)
        /\ route = NextRoute(n, wait)
        /\ monitor = NextMonitor(n, s)
  OBVIOUS
<1>6. cache'[n] = [state |-> state, waitReply |-> waitReply, locked |-> locked, hold |-> hold,
                   stall |-> stall, sram |-> sram, rd |-> rd, mem |-> mem, route |-> route,
                   monitor |-> monitor]
  <2> DEFINE outs == [k \in Cpu |-> Out(k, sig[k])]
  <2>1. cache'[n] = NextCache(n, sig[n], wait, In(n, outs[PrevCpu(n)]), sig[NextCpu(n)].ready, outs[n])
    BY Zenon DEF Moves, Step
  <2>2. outs[PrevCpu(n)] = before /\ outs[n] = out
    BY <1>0, <1>1
  <2> HIDE DEF outs
  <2>3. cache'[n] = NextCache(n, s, wait, In(n, before), ready, out)
    BY <1>0, <2>1, <2>2
  <2> QED BY <1>5, <2>3, Zenon DEF NextCache
<1>7. /\ cache[n].hold \in Message \cup {None} /\ cache[n].sram \in [Index -> Entry]
      /\ cache[n].route \in {"IDLE", "CACHE", "BYPASS"}
  BY CacheTypes DEF Inv
<1>8. state \in {"ACCEPT", "CORE", "SNOOP", "REPLY"}
  BY <1>5 DEF NextState
<1>9. waitReply \in BOOLEAN /\ locked \in BOOLEAN
  BY <1>5 DEF NextLocked
<1>10. hold \in Message \cup {None} /\ stall \in Message \cup {None}
  BY <1>3, <1>4, <1>5, <1>7, Zenon
<1>11. sram \in [Index -> Entry]
  <2>1. sram = cache'[n].sram
    BY <1>6
  <2>2. \A i \in Index : sram[i] \in Entry
    BY <2>1, EntryMoves
  <2>3. DOMAIN sram = Index
    BY <1>5, <1>7 DEF NextSram
  <2>4. sram = [i \in Index |-> sram[i]]
    BY <1>5, <1>7, <2>3 DEF NextSram
  <2> QED BY <2>2, <2>4
<1>12. rd \in Entry \cup {None}
  <2>1. CASE state = "CORE"
    <3>1. Asks(n) /\ rd = cache[n].sram[IndexOf[req[n].line]]
      BY <1>5, <2>1 DEF NextState, NextRd
    <3>2. req[n].line \in Line
      BY <3>1 DEF Inv, TypeOK, Asks, Request
    <3> QED BY <1>7, <3>1, <3>2, LineIndex
  <2>2. CASE state = "SNOOP"
    <3>1. cache[n].hold # None /\ rd = cache[n].sram[IndexOf[cache[n].hold.line]]
      BY <1>5, <2>2 DEF NextState, NextRd, AcceptSnoop
    <3>2. cache[n].hold.line \in Line
      BY <1>7, <3>1, MessageTypes
    <3> QED BY <1>7, <3>1, <3>2, LineIndex
  <2>3. CASE state # "CORE" /\ state # "SNOOP"
    BY <1>5, <2>3 DEF NextRd
  <2> QED BY <2>1, <2>2, <2>3
<1>13. mem \in Access
  BY <1>2, <1>5, MemNext
<1>14. route \in {"IDLE", "CACHE", "BYPASS"}
  BY <1>5, <1>7 DEF NextRoute
<1>15. monitor \in Mon!Monitor
  BY <1>2, <1>5, MonitorNext
<1> QED BY <1>6, <1>8, <1>9, <1>10, <1>11, <1>12, <1>13, <1>14, <1>15 DEF Cache

\* A store that is done leaves data of a line.
LEMMA StoresData ==
  ASSUME Inv, NEW n \in Cpu, NEW wait, NEW s, s = Signals(n, wait), Stores(n, s)
  PROVE  s.write.data \in Data /\ cache[n].state = "CORE" /\ StoreDone(n, s) /\ Commits(n)
<1>1. s.done /\ s.write # None
  BY DEF Stores
<1>2. cache[n].state = "CORE"
  BY <1>1, OnlyCore
<1>3. Nothing(s) \/ Serves(n, s)
  BY <1>2, CoreSignals, Zenon
<1>4. StoreDone(n, s) /\ Commits(n)
  BY <1>1, <1>3, Zenon DEF Nothing, Serves, Replaces, Misses, Upgrades, LoadDone, StoreDone
<1>5. s.write = [line |-> req[n].line, state |-> "MODIFIED", data |-> Stored(n)]
  BY <1>4, Zenon DEF StoreDone
<1>6. Stored(n) \in Data
  BY <1>2, <1>4, StoredIsData DEF StoreDone, Valid
<1> QED BY <1>2, <1>4, <1>5, <1>6

\* The memory and the history after a cycle.
LEMMA DataNext ==
  ASSUME Inv, NEW wait, NEW sig, NEW issue, Moves(wait, sig, issue)
  PROVE  ram' \in [Line -> Data] /\ latest' \in [Line -> Data]
<1>1. ASSUME NEW l \in Line
      PROVE  (LET writers == {n \in Cpu : cache[n].mem.op = "write" /\ cache[n].mem.line = l
                                 /\ MemEnd(n, wait)}
              IN IF writers = {} THEN ram[l] ELSE cache[CHOOSE n \in writers : TRUE].mem.data) \in Data
  <2> DEFINE writers == {n \in Cpu : cache[n].mem.op = "write" /\ cache[n].mem.line = l
                                       /\ MemEnd(n, wait)}
             n == CHOOSE n \in writers : TRUE
  <2>1. CASE writers = {}
    BY <2>1 DEF Inv, TypeOK
  <2>2. CASE writers # {}
    <3>1. n \in writers
      BY <2>2
    <3>2. n \in Cpu /\ cache[n].mem.op = "write"
      BY <3>1
    <3> HIDE DEF n
    <3>3. cache[n].mem \in Access
      BY <3>2, CacheTypes DEF Inv
    <3>4. cache[n].mem.data \in Data
      BY <3>2, <3>3 DEF Access
    <3> QED BY <2>2, <3>4 DEF n
  <2> QED BY <2>1, <2>2
<1>2. ram' \in [Line -> Data]
  BY <1>1 DEF Moves, Step, NextRam
<1>3. ASSUME NEW l \in Line
      PROVE  (LET w == {n \in Cpu : Stores(n, sig[n]) /\ req[n].line = l}
              IN IF w = {} THEN latest[l] ELSE sig[CHOOSE n \in w : TRUE].write.data) \in Data
  <2> DEFINE w == {n \in Cpu : Stores(n, sig[n]) /\ req[n].line = l}
             n == CHOOSE n \in w : TRUE
  <2>1. CASE w = {}
    BY <2>1 DEF Inv, TypeOK
  <2>2. CASE w # {}
    <3>1. n \in w
      BY <2>2
    <3>2. n \in Cpu /\ Stores(n, sig[n])
      BY <3>1
    <3> HIDE DEF n
    <3>3. sig[n] = Signals(n, wait)
      BY <3>2, Zenon DEF Moves
    <3>4. sig[n].write.data \in Data
      BY <3>2, <3>3, StoresData
    <3> QED BY <2>2, <3>4 DEF n
  <2> QED BY <2>1, <2>2
<1>4. latest' \in [Line -> Data]
  BY <1>3 DEF Moves, Step
<1> QED BY <1>2, <1>4

-----------------------------------------------------------------------------
\* A cycle keeps the types.
LEMMA TypesStay ==
  ASSUME Inv, NEW wait, NEW sig, NEW issue, Moves(wait, sig, issue)
  PROVE  TypeOK'
<1>1. req' \in [Cpu -> Request \cup {None}]
  <2>1. ASSUME NEW n \in Cpu
        PROVE  (IF n \in DOMAIN issue THEN issue[n] ELSE req[n]) \in Request \cup {None}
    <3>1. CASE n \in DOMAIN issue
      <4>1. issue[n] \in Requests[n] \cup {None}
        BY <3>1 DEF Moves
      <4> QED BY <3>1, <4>1, SystemAssumption
    <3>2. CASE n \notin DOMAIN issue
      BY <3>2 DEF Inv, TypeOK
    <3> QED BY <3>1, <3>2
  <2> QED BY <2>1 DEF Moves, Step
<1>2. cache' \in [Cpu -> Cache]
  <2>1. \A n \in Cpu : cache'[n] \in Cache
    BY CacheNext
  <2>2. cache' = [n \in Cpu |-> cache'[n]]
    BY DEF Moves, Step
  <2> QED BY <2>1, <2>2
<1>3. Token!TypeOK'
  <2>1. pos \in Cpu /\ token \in [0 .. Slots - 1 -> Line \cup {None}]
    BY DEF Inv, TypeOK, Token!TypeOK, Token!Node, Token!Slot, Cpu
  <2>2. pos' = NextCpu(pos) /\ pos' \in Cpu
    BY <2>1, RingOrder DEF Moves, Step
  <2>3. \A n \in Cpu : CoreLine(n) \in Line \cup {None}
    BY DEF CoreLine, Asks, Inv, TypeOK, Request
  <2>4. \A n \in Cpu : CoreLine(n)' \in Line \cup {None}
    BY <1>1 DEF CoreLine, Asks, Request
  <2>5. token' \in [0 .. Slots - 1 -> Line \cup {None}]
    <3> DEFINE h == NextCpu(pos)
               lock == Token!Post(h, sig[h].send # None, sig[h].done)
    <3>1. lock \in Line \cup {None}
      <4>1. h \in Cpu
        BY <2>2
      <4> HIDE DEF h
      <4> QED BY <2>3, <4>1 DEF Token!Post
    <3>2. token' = [k \in 0 .. Slots - 1 |-> IF k = 0 THEN lock ELSE token[k - 1]]
      BY Zenon DEF Moves, Step
    <3> HIDE DEF lock
    <3>3. \A k \in 0 .. Slots - 1 : k # 0 => k - 1 \in 0 .. Slots - 1
      BY SMT DEF Slots
    <3> QED BY <2>1, <3>1, <3>2, <3>3
  <2>6. \A n \in Cpu : cache'[n].locked \in BOOLEAN /\ cache'[n].waitReply \in BOOLEAN
    BY <1>2, Zenon DEF Cache
  <2>7. pos' \in Token!Node /\ token' \in [Token!Slot -> Line \cup {None}]
    BY <2>2, <2>5 DEF Token!Node, Token!Slot, Cpu
  <2>8. /\ [n \in Cpu |-> CoreLine(n)'] \in [Token!Node -> Line \cup {None}]
        /\ [n \in Cpu |-> cache'[n].locked] \in [Token!Node -> BOOLEAN]
        /\ [n \in Cpu |-> cache'[n].waitReply] \in [Token!Node -> BOOLEAN]
    BY <2>4, <2>6 DEF Token!Node, Cpu
  <2>9. [n \in Cpu |-> IF cache'[n].state = "CORE" THEN "CORE" ELSE "ACCEPT"]
          \in [Token!Node -> {"ACCEPT", "CORE"}]
    BY DEF Token!Node, Cpu
  <2> QED BY <2>7, <2>8, <2>9, Zenon DEF Token!TypeOK
<1>4. lastHold' \in BOOLEAN /\ lastSelect' \in 0 .. RingSize - 1
  BY SelectTypes DEF Inv, Moves, Step, Arbiter!Arbitrate
<1> QED BY <1>1, <1>2, <1>3, <1>4, DataNext DEF TypeOK

\* At reset nothing is under way.
LEMMA InitInv == Init => Inv
<1> SUFFICES ASSUME Init PROVE Inv
  OBVIOUS
<1>1. \A n \in Cpu :
        /\ req[n] = None /\ cache[n] = ResetCache
        /\ cache[n].state = "ACCEPT" /\ ~cache[n].waitReply /\ ~cache[n].locked
        /\ cache[n].hold = None /\ cache[n].stall = None /\ cache[n].mem.op = "none"
        /\ cache[n].route = "IDLE" /\ cache[n].monitor.mask = {}
  BY DEF Init, ResetCache, NoAccess, Mon!ResetMonitor
<1>2. TypeOK
  <2>1. req \in [Cpu -> Request \cup {None}]
    BY DEF Init
  <2>2. ResetCache \in Cache
    <3>1. [i \in Index |-> Empty] \in [Index -> Entry]
      BY DEF Empty, Entry
    <3>2. NoAccess \in Access /\ Mon!ResetMonitor \in Mon!Monitor
      BY DEF NoAccess, Access, Mon!ResetMonitor, Mon!Monitor
    <3> QED BY <3>1, <3>2 DEF ResetCache, Cache
  <2>3. cache \in [Cpu -> Cache]
    BY <2>2 DEF Init
  <2>4. pos \in Token!Node /\ token \in [Token!Slot -> Line \cup {None}]
    BY SystemAssumption, SMT DEF Init, Token!ResetHolder, Token!Node, Token!Slot, RingSize
  <2>5. \A n \in Cpu : CoreLine(n) = None
    BY <1>1 DEF CoreLine, Asks
  <2>6. Token!TypeOK
    <3>1. /\ [n \in Cpu |-> CoreLine(n)] \in [Token!Node -> Line \cup {None}]
          /\ [n \in Cpu |-> cache[n].locked] \in [Token!Node -> BOOLEAN]
          /\ [n \in Cpu |-> cache[n].waitReply] \in [Token!Node -> BOOLEAN]
      <4>1. \A n \in Cpu : cache[n].locked \in BOOLEAN /\ cache[n].waitReply \in BOOLEAN
        BY <2>3, Zenon DEF Cache
      <4> QED BY <2>5, <4>1 DEF Token!Node, Cpu
    <3>2. [n \in Cpu |-> IF cache[n].state = "CORE" THEN "CORE" ELSE "ACCEPT"]
            \in [Token!Node -> {"ACCEPT", "CORE"}]
      BY DEF Token!Node, Cpu
    <3> QED BY <2>4, <3>1, <3>2, Zenon DEF Token!TypeOK
  <2>7. lastHold \in BOOLEAN /\ lastSelect \in 0 .. RingSize - 1
    BY DEF Init, Arbiter!ResetArbiter, RingSize
  <2>8. ram \in [Line -> Data] /\ latest \in [Line -> Data]
    BY SystemAssumption DEF Init, Data
  <2> QED BY <2>1, <2>3, <2>6, <2>7, <2>8 DEF TypeOK
<1>3. Serving
  BY <1>1 DEF Serving
<1>4. \A p \in Place : ~Going(p)
  BY <1>1 DEF Place, Going, At
<1> QED BY <1>2, <1>3, <1>4, Zenon DEF Inv, OneEach, HomeWaits, About

\* A cycle keeps the invariant.
LEMMA StepInv == Inv /\ [Tick]_vars => Inv'
<1> SUFFICES ASSUME Inv, [Tick]_vars PROVE Inv'
  OBVIOUS
<1>1. CASE Tick
  <2>1. PICK wait, sig, issue : Moves(wait, sig, issue)
    BY <1>1, TickMoves
  <2> QED BY <2>1, TypesStay, ServingStays, OneEachStays, AboutStays DEF Inv
<1>2. CASE UNCHANGED vars
  <2>1. /\ req' = req /\ cache' = cache /\ pos' = pos /\ token' = token /\ lastHold' = lastHold
        /\ lastSelect' = lastSelect /\ ram' = ram /\ latest' = latest
    BY <1>2 DEF vars
  <2>2. TypeOK' /\ Serving'
    BY <2>1 DEF Inv, TypeOK, Token!TypeOK, CoreLine, Asks, Serving, AcceptSnoop
  <2>3. \A p \in Place :
          /\ Going(p)' <=> Going(p)
          /\ Home(p)' = Home(p) /\ Reads(p)' = Reads(p) /\ LineOf(p)' = LineOf(p)
          /\ At(p)' = At(p)
    BY <2>1 DEF Going, Home, Reads, LineOf, At
  <2>4. OneEach' /\ HomeWaits' /\ About'
    BY <2>1, <2>3, ZenonT(60) DEF Inv, OneEach, HomeWaits, About
  <2> QED BY <2>2, <2>4 DEF Inv
<1> QED BY <1>1, <1>2

\* The inductive invariant.
LEMMA Invariant == Spec => []Inv
<1> QED BY InitInv, StepInv, PTL DEF Spec

\* The registers of the caches, of the token and of the arbiter keep their types
\* in every cycle, however many caches there are: what comes round the ring fits
\* where the code puts it, and an entry that is valid has data.
THEOREM TypeCorrect == Spec => []TypeOK
<1>1. Inv => TypeOK
  BY DEF Inv
<1> QED BY <1>1, Invariant, PTL

-----------------------------------------------------------------------------
\* At reset the token is as CacheToken has it.
LEMMA TokenInit == Init => Token!Init
<1> SUFFICES ASSUME Init PROVE Token!Init
  OBVIOUS
<1>1. \A n \in Cpu : /\ CoreLine(n) = None /\ cache[n].locked = FALSE
                     /\ cache[n].waitReply = FALSE /\ cache[n].state = "ACCEPT"
  BY DEF Init, ResetCache, CoreLine, Asks
<1>2. /\ [n \in Cpu |-> CoreLine(n)] = [n \in Cpu |-> None]
      /\ [n \in Cpu |-> cache[n].locked] = [n \in Cpu |-> FALSE]
      /\ [n \in Cpu |-> cache[n].waitReply] = [n \in Cpu |-> FALSE]
      /\ [n \in Cpu |-> IF cache[n].state = "CORE" THEN "CORE" ELSE "ACCEPT"] = [n \in Cpu |-> "ACCEPT"]
  BY <1>1
<1>3. /\ pos = Token!ResetHolder /\ token = [k \in Token!Slot |-> None]
  BY DEF Init, Token!Slot
<1>4. Cpu = Token!Node
  BY DEF Cpu, Token!Node
<1> QED BY <1>2, <1>3, <1>4 DEF Token!Init

\* Every cycle of the caches is a cycle of the token: a cache wants to send when
\* its controller locks the line, it finishes when the core's request is done,
\* and it is answered when its message is back for good or its memory read ends.
LEMMA TokenTick ==
  ASSUME Inv, NEW wait, NEW sig, NEW issue, Moves(wait, sig, issue)
  PROVE  Token!Tick
<1> DEFINE line == [n \in Cpu |-> CoreLine(n)]
           locked == [n \in Cpu |-> cache[n].locked]
           phase == [n \in Cpu |-> IF cache[n].state = "CORE" THEN "CORE" ELSE "ACCEPT"]
           waitReply == [n \in Cpu |-> cache[n].waitReply]
           entering == {n \in Cpu : cache'[n].state = "CORE"}
           wanting == {n \in Cpu : sig[n].lockLine}
           answered == {n \in Cpu : cache[n].waitReply /\ (sig[n].endReply \/ MemReadEnd(n, wait))}
           finishing == {n \in Cpu : sig[n].done}
           changing == {n \in Cpu : CoreLine(n) = None} \cup finishing
           next == [n \in changing |-> CoreLine(n)']
           sending == {n \in wanting : Token!MaySend(n) \/ locked[n]}
           holder == Token!NextNode(pos)
<1>0. Cpu = Token!Node
  BY DEF Cpu, Token!Node
<1>1. ASSUME NEW n \in Cpu
      PROVE  /\ sig[n] = Signals(n, wait)
             /\ sig[n].lockLine => cache[n].state = "CORE"
             /\ sig[n].done => cache[n].state = "CORE" /\ ~sig[n].lockLine
             /\ sig[n].send # None <=> sig[n].lockLine /\ (Token!MaySend(n) \/ cache[n].locked)
  <2>1. sig[n] = Signals(n, wait)
    BY Zenon DEF Moves
  <2>2. CASE cache[n].state = "CORE"
    BY <2>1, <2>2, CoreSignals
  <2>3. CASE cache[n].state # "CORE"
    BY <2>1, <2>3, OnlyCore
  <2> QED BY <2>1, <2>2, <2>3
<1>2. entering \in SUBSET {n \in Token!Node : Token!MayEnter(n)}
  <2> SUFFICES ASSUME NEW n \in Cpu, cache'[n].state = "CORE"
               PROVE  Token!MayEnter(n)
    BY <1>0
  <2>0. PICK s, ready : s = sig[n] /\ ready = sig[NextCpu(n)].ready
    OBVIOUS
  <2>1. NextState(n, ready) = "CORE"
    BY <2>0, NextRegisters
  <2>2. /\ cache[n].state = "ACCEPT" /\ Asks(n) /\ ~cache[n].waitReply
        /\ ~cache[n].locked \/ Token!MaySend(n)
    BY <2>1 DEF NextState
  <2>3. CoreLine(n) \in Line
    BY <2>2 DEF CoreLine, Asks, Inv, TypeOK, Request
  <2>4. CoreLine(n) # None
    BY <2>3, NoneAssumption
  <2> QED BY <2>2, <2>4 DEF Token!MayEnter
<1>3. wanting \in SUBSET Token!InCore /\ finishing \in SUBSET (Token!InCore \ wanting)
  BY <1>0, <1>1 DEF Token!InCore
<1>4. answered \in SUBSET {n \in Token!Node : waitReply[n]}
  BY <1>0
<1>5. \A n \in Cpu : CoreLine(n)' \in Line \cup {None}
  BY TypesStay DEF TypeOK, CoreLine, Asks, Request
<1>6. next \in [{n \in Token!Node : line[n] = None} \cup finishing -> Line \cup {None}]
  <2>1. {n \in Token!Node : line[n] = None} \cup finishing = changing
    BY <1>0
  <2>2. \A n \in changing : n \in Cpu
    OBVIOUS
  <2> HIDE DEF changing, finishing
  <2>3. next \in [changing -> Line \cup {None}]
    BY <1>5, <2>2
  <2> QED BY <2>1, <2>3
<1>7. ASSUME NEW n \in Cpu
      PROVE  CoreLine(n)' = IF n \in DOMAIN next THEN next[n] ELSE CoreLine(n)
  <2>1. CASE n \in changing
    BY <2>1
  <2>2. CASE n \notin changing
    <3>1. Asks(n) /\ ~sig[n].done
      BY <2>2 DEF CoreLine
    <3>2. req'[n] = req[n] /\ Asks(n)'
      BY <3>1, RequestKept
    <3> QED BY <2>2, <3>1, <3>2 DEF CoreLine
  <2> QED BY <2>1, <2>2
<1>8. ASSUME NEW n \in Cpu
      PROVE  n \in sending <=> sig[n].send # None
  BY <1>1
<1>9. ASSUME NEW n \in Cpu
      PROVE  /\ cache'[n].locked = (n \notin finishing /\ (n \in wanting \/ cache[n].locked))
             /\ cache'[n].waitReply = (n \in sending \/ (cache[n].waitReply /\ n \notin answered))
  <2>0. PICK s, ready : s = sig[n] /\ ready = sig[NextCpu(n)].ready
    OBVIOUS
  <2>1. /\ cache'[n].waitReply = (~(s.endReply \/ MemReadEnd(n, wait))
                                    /\ (s.send # None \/ cache[n].waitReply))
        /\ cache'[n].locked = NextLocked(n, s)
    BY <2>0, NextRegisters
  <2>2. cache'[n].locked = (n \notin finishing /\ (n \in wanting \/ cache[n].locked))
    BY <2>0, <2>1, Zenon DEF NextLocked
  <2>3. s.send # None => ~s.endReply /\ ~MemReadEnd(n, wait)
    BY <2>0, SenderWaits
  <2>4. n \in answered <=> cache[n].waitReply /\ (s.endReply \/ MemReadEnd(n, wait))
    BY <2>0
  <2>5. n \in sending <=> s.send # None
    BY <1>8, <2>0
  <2> HIDE DEF answered, sending
  <2>6. cache'[n].waitReply = (n \in sending \/ (cache[n].waitReply /\ n \notin answered))
    BY <2>1, <2>3, <2>4, <2>5, Zenon
  <2> QED BY <2>2, <2>6
<1>10. pos' = holder /\ holder \in Cpu
  <2>1. pos \in Cpu
    BY <1>0 DEF Inv, TypeOK, Token!TypeOK
  <2> QED BY <2>1, RingOrder DEF Moves, Step, NextCpu
<1>11. token' = [k \in Token!Slot |->
                   IF k = 0 THEN Token!Post(holder, holder \in sending, holder \in finishing)
                            ELSE token[k - 1]]
  <2> DEFINE send == sig[holder].send # None
             done == sig[holder].done
  <2>1. token' = [k \in Token!Slot |-> IF k = 0 THEN Token!Post(holder, send, done) ELSE token[k - 1]]
    BY Zenon DEF Moves, Step, NextCpu, Token!Slot
  <2>2. (holder \in sending <=> send) /\ (holder \in finishing <=> done)
    BY <1>8, <1>10
  <2> HIDE DEF send, done, sending, finishing, holder
  <2>3. Token!Post(holder, send, done) = Token!Post(holder, holder \in sending, holder \in finishing)
    <3>1. /\ Token!Post(holder, send, done)
               = IF Token!Free(holder) /\ (send \/ locked[holder]) /\ ~done THEN line[holder] ELSE None
          /\ Token!Post(holder, holder \in sending, holder \in finishing)
               = IF Token!Free(holder) /\ (holder \in sending \/ locked[holder]) /\ ~(holder \in finishing)
                   THEN line[holder] ELSE None
      BY Zenon DEF Token!Post
    <3> HIDE DEF line, locked
    <3> QED BY <2>2, <3>1
  <2> QED BY <2>1, <2>3
<1>12. [n \in Cpu |-> CoreLine(n)'] = [n \in Token!Node |-> IF n \in DOMAIN next THEN next[n] ELSE line[n]]
  <2>1. \A n \in Cpu : line[n] = CoreLine(n)
    OBVIOUS
  <2> HIDE DEF line, next
  <2> QED BY <1>0, <1>7, <2>1
<1>13. [n \in Cpu |-> cache'[n].locked]
         = [n \in Token!Node |-> n \notin finishing /\ (n \in wanting \/ locked[n])]
  <2>1. \A n \in Cpu : locked[n] = cache[n].locked
    OBVIOUS
  <2> HIDE DEF locked, finishing, wanting
  <2>2. \A n \in Cpu : cache'[n].locked = (n \notin finishing /\ (n \in wanting \/ locked[n]))
    BY <1>9, <2>1, Zenon
  <2> QED BY <1>0, <2>2, Zenon
<1>14. [n \in Cpu |-> IF cache'[n].state = "CORE" THEN "CORE" ELSE "ACCEPT"]
         = [n \in Token!Node |-> IF n \in entering THEN "CORE" ELSE "ACCEPT"]
  BY <1>0
<1>15. [n \in Cpu |-> cache'[n].waitReply]
         = [n \in Token!Node |-> n \in sending \/ (waitReply[n] /\ n \notin answered)]
  <2>1. \A n \in Cpu : waitReply[n] = cache[n].waitReply
    OBVIOUS
  <2> HIDE DEF waitReply, sending, answered
  <2>2. \A n \in Cpu : cache'[n].waitReply = (n \in sending \/ (waitReply[n] /\ n \notin answered))
    BY <1>9, <2>1, Zenon
  <2> QED BY <1>0, <2>2, Zenon
\* The choices of Tick, as values.
<1>16. PICK en, wa, an, fi, ne : /\ en = entering /\ wa = wanting /\ an = answered
                                 /\ fi = finishing /\ ne = next
  OBVIOUS
<1> HIDE DEF entering, wanting, answered, finishing, next, line, locked, waitReply
<1>17. /\ en \in SUBSET {n \in Token!Node : Token!MayEnter(n)} /\ wa \in SUBSET Token!InCore
       /\ an \in SUBSET {n \in Token!Node : waitReply[n]} /\ fi \in SUBSET (Token!InCore \ wa)
       /\ ne \in [{n \in Token!Node : line[n] = None} \cup fi -> Line \cup {None}]
  BY <1>2, <1>3, <1>4, <1>6, <1>16, Zenon
<1>18. Token!Cycle(en, wa, fi, an, ne)
  <2> USE DEF line, locked, waitReply
  <2> QED BY <1>10, <1>11, <1>12, <1>13, <1>14, <1>15, <1>16, Zenon DEF Token!Cycle
<1> USE DEF line, waitReply
<1>19. \E next1 \in [{n \in Token!Node : line[n] = None} \cup fi -> Line \cup {None}] :
         Token!Cycle(en, wa, fi, an, next1)
  BY <1>17, <1>18, Zenon
<1> QED BY <1>17, <1>19, Zenon DEF Token!Tick

\* Other cycles leave the token alone.
LEMMA TokenStep == Inv /\ [Tick]_vars => [Token!Tick]_Token!vars
<1> SUFFICES ASSUME Inv, [Tick]_vars PROVE [Token!Tick]_Token!vars
  OBVIOUS
<1>1. CASE Tick
  <2>1. PICK wait, sig, issue : Moves(wait, sig, issue)
    BY <1>1, TickMoves
  <2> QED BY <2>1, TokenTick
<1>2. CASE UNCHANGED vars
  BY <1>2 DEF vars, Token!vars, CoreLine, Asks
<1> QED BY <1>1, <1>2

\* The caches use the lock token as CacheToken says, any number of them: what a
\* controller sees of the token, and when it locks, sends and lets go, is what
\* the theorems of CacheToken_proof are about.
THEOREM TokenRefinement == Spec => TokenSpec
<1> QED BY TokenInit, TokenStep, Invariant, PTL DEF Spec, TokenSpec, Token!Spec

-----------------------------------------------------------------------------
\* A cache has no more than one message or memory read under way, and only while
\* it waits: no request is sent or answered twice.
RequestOnce ==
  \A n \in Cpu :
    LET reads == IF cache[n].mem.op = "read" THEN 1 ELSE 0
    IN Cardinality(Messages(n)) + reads <= IF cache[n].waitReply THEN 1 ELSE 0

\* A message that goes to a cache is at a place of the ring.
LEMMA MessagePlace ==
  ASSUME NEW n \in Cpu, NEW x \in Messages(n)
  PROVE  \E p \in Place : /\ Going(p) /\ Home(p) = n /\ p[2] # "mem" /\ x[3] = At(p)
                          /\ x = <<p[1], p[2], At(p)>>
<1>1. CASE \E k \in Cpu : /\ cache[k].hold # None /\ (k + cache[k].hold.ttl) % RingSize = n
                          /\ x = <<k, "hold", cache[k].hold>>
  <2>1. PICK k \in Cpu : /\ cache[k].hold # None /\ (k + cache[k].hold.ttl) % RingSize = n
                         /\ x = <<k, "hold", cache[k].hold>>
    BY <1>1
  <2> DEFINE p == <<k, "hold">>
  <2>2. p \in Place /\ At(p) = cache[k].hold /\ Going(p) /\ Home(p) = n /\ p[2] # "mem"
    BY <2>1 DEF Place, At, Going, Home
  <2>3. x[3] = cache[k].hold /\ x = <<p[1], p[2], At(p)>>
    BY <2>1, <2>2
  <2> QED BY <2>2, <2>3
<1>2. CASE \E k \in Cpu : /\ cache[k].stall # None /\ (k + 1 + cache[k].stall.ttl) % RingSize = n
                          /\ x = <<k, "stall", cache[k].stall>>
  <2>1. PICK k \in Cpu : /\ cache[k].stall # None /\ (k + 1 + cache[k].stall.ttl) % RingSize = n
                         /\ x = <<k, "stall", cache[k].stall>>
    BY <1>2
  <2> DEFINE p == <<k, "stall">>
  <2>2. p \in Place /\ At(p) = cache[k].stall /\ Going(p) /\ Home(p) = n /\ p[2] # "mem"
    BY <2>1 DEF Place, At, Going, Home
  <2>3. x[3] = cache[k].stall /\ x = <<p[1], p[2], At(p)>>
    BY <2>1, <2>2
  <2> QED BY <2>2, <2>3
<1> QED BY <1>1, <1>2 DEF Messages

\* The other half of NoLostRequest, that nothing gets lost, does not hold of every
\* ring; this one does, for any number of caches.
THEOREM NeverTwice == Spec => []RequestOnce
<1>1. Inv => RequestOnce
  <2> SUFFICES ASSUME Inv, NEW n \in Cpu,
                      NEW reads, reads = IF cache[n].mem.op = "read" THEN 1 ELSE 0
               PROVE  Cardinality(Messages(n)) + reads <= IF cache[n].waitReply THEN 1 ELSE 0
    BY DEF RequestOnce
  <2>1. /\ cache[n].mem.op = "read" => /\ <<n, "mem">> \in Place /\ Going(<<n, "mem">>)
                                       /\ Home(<<n, "mem">>) = n /\ cache[n].waitReply
    BY ReadIsOwn
  <2>2. CASE Messages(n) = {}
    <3>1. Cardinality(Messages(n)) = 0
      BY <2>2, FS_EmptySet
    <3> QED BY <2>1, <3>1
  <2>3. CASE Messages(n) # {}
    <3>1. PICK x \in Messages(n) : TRUE
      BY <2>3
    <3>2. PICK p \in Place : /\ Going(p) /\ Home(p) = n /\ p[2] # "mem"
                             /\ x = <<p[1], p[2], At(p)>>
      BY <3>1, MessagePlace
    <3>3. ASSUME NEW y \in Messages(n) PROVE y = x
      <4>1. PICK q \in Place : Going(q) /\ Home(q) = n /\ y = <<q[1], q[2], At(q)>>
        BY MessagePlace
      <4>2. q = p
        BY <3>2, <4>1 DEF Inv, OneEach
      <4> QED BY <3>2, <4>1, <4>2
    <3>4. Messages(n) = {x}
      BY <3>1, <3>3
    <3>5. Cardinality(Messages(n)) = 1
      BY <3>4, FS_Singleton
    <3>6. cache[n].mem.op # "read"
      <4>1. cache[n].mem.op = "read" => <<n, "mem">> = p
        BY <2>1, <3>2 DEF Inv, OneEach
      <4> QED BY <3>2, <4>1
    <3>7. cache[n].waitReply
      BY <3>2 DEF Inv, HomeWaits
    <3> QED BY <3>5, <3>6, <3>7
  <2> QED BY <2>2, <2>3
<1> QED BY <1>1, Invariant, PTL
=============================================================================
