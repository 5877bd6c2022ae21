------------------------------ MODULE Commands ------------------------------
(***************************************************************************)
(* The commands of the demo's console (demo/main.c, util.c, cache.c and    *)
(* perf.c).  A line is a sequence of words, and what a command does is a   *)
(* sequence of operations that the core then goes through.  Numbers and    *)
(* names inside of what is printed are left out.                           *)
(***************************************************************************)
EXTENDS Float16, Sequences

CONSTANTS
  NumCpus,   \* NUM_CPUS, at most 4
  Word,      \* how many values an unsigned has (2^32)
  Hex,       \* the words that parse_hex takes, and their values; a letter that is
             \* no digit counts as zero
  Decimal,   \* the words that parse_fp16 takes: sign, digits, and the power of ten
             \* by which they are divided
  IoBase     \* addresses from here on are not cached

\* parse_hex gives an unsigned: it takes eight digits at most.
ASSUME HexAssumption ==
  /\ Word \in Nat \ {0} /\ Word % 256 = 0
  /\ \A w \in DOMAIN Hex : Hex[w] \in 0 .. Word - 1

CpuWords == [i \in 1 .. NumCpus |-> <<"cpu0", "cpu1", "cpu2", "cpu3">>[i]]
LaneWords == <<"lane0", "lane1", "lane2", "lane3">>

At(words, w) == CHOOSE i \in DOMAIN words : words[i] = w
CpuOf(w) == At(CpuWords, w) - 1
LaneOf(w) == At(LaneWords, w) - 1
Half16 == [w \in DOMAIN Decimal |->
             ParseFp16(Decimal[w].neg, Decimal[w].digits, Decimal[w].denominator)]

Listed(words, w) == \E i \in DOMAIN words : words[i] = w

Say(text) == <<[op |-> "print", text |-> text]>>

-----------------------------------------------------------------------------
(***************************************************************************)
(* util.c: each argument is taken by a function that complains and fails.  *)
(***************************************************************************)
Complaint(kind, w) ==
  CASE kind = "cpu" /\ ~Listed(CpuWords, w) -> "bad input"
    [] kind = "lane" /\ ~Listed(LaneWords, w) -> "bad input"
    [] kind \in {"hex", "aligned"} /\ w \notin DOMAIN Hex -> "bad input"
    [] kind = "fp16" /\ w \notin DOMAIN Decimal -> "bad input"
    [] kind = "aligned" /\ w \in DOMAIN Hex /\ Hex[w] % 4 # 0 -> "unaligned address"
    [] OTHER -> "none"

\* What is printed when the arguments a are taken one after the other as the given
\* kinds: the complaint of the first that fails, and nothing if none does.
Refused(a, kinds) ==
  LET fails == {i \in DOMAIN kinds : i > Len(a) \/ Complaint(kinds[i], a[i]) # "none"}
      first == CHOOSE i \in fails : \A j \in fails : i <= j
  IN CASE fails = {} -> <<>>
       [] fails # {} /\ first > Len(a) -> Say("unexpected end-of-input")
       [] OTHER -> Say(Complaint(kinds[first], a[first]))

\* The same, and expect_end.
RefusedWhole(a, kinds) ==
  IF Refused(a, kinds) = <<>> /\ Len(a) > Len(kinds) THEN Say("too many arguments")
                                                     ELSE Refused(a, kinds)

Unless(refused, ops) == IF refused # <<>> THEN refused ELSE ops

\* parse_cpu_mask takes all that is left.
RefusedMask(a) ==
  CASE \E i \in DOMAIN a : ~Listed(CpuWords, a[i]) -> Say("bad input")
    [] a = <<>> -> Say("must specify at least one cpu")
    [] OTHER -> <<>>

MaskOf(a) == {CpuOf(a[i]) : i \in DOMAIN a}
-----------------------------------------------------------------------------
(***************************************************************************)
(* main.c, cache.c and perf.c.                                             *)
(***************************************************************************)
Unknown == Say("unknown command")

CmdRun(a)  == Unless(RefusedMask(a), <<[op |-> "runread", mask |-> MaskOf(a)]>>)
CmdHalt(a) == Unless(RefusedMask(a), <<[op |-> "haltread", mask |-> MaskOf(a)]>>)

DoRead(ptr) == <<[op |-> "peek", ptr |-> ptr]>> \o Say("p -> v")
DoWrite(ptr, val) == <<[op |-> "poke", ptr |-> ptr, val |-> val]>> \o Say("p <- v")

CmdRead(a)  == Unless(RefusedWhole(a, <<"aligned">>), DoRead(Hex[a[1]]))
CmdWrite(a) == Unless(RefusedWhole(a, <<"aligned", "hex">>), DoWrite(Hex[a[1]], Hex[a[2]]))

\* cache_debug: the address goes to the cache's debug port, which answers with the
\* line's tag and state.  What is after the address is not looked at.
Times(ops, n) == [i \in 1 .. n * Len(ops) |-> ops[((i - 1) % Len(ops)) + 1]]
CacheDebug(ptr) ==
  Say("req_addr") \o Say("cacheability")
    \o (IF ptr < IoBase THEN Times(Say("index, tag or line"), 5) \o Say("state") \o Say("hit or miss")
                               \o Times(Say("word"), 4)
                        ELSE <<>>)
CmdCache(a) == Unless(Refused(a, <<"cpu", "hex">>), CacheDebug(Hex[a[2]]))

\* The counters are only read and reset here; what they count is not followed.
PerfShow == Say("dumping") \o Times(Say("counters"), 7)
PerfClear == Say("cleared")

CmdPerf(a) ==
  LET todo == CASE a[2] = "clear" -> PerfClear
                [] a[2] = "show" -> PerfShow
                [] OTHER -> Unknown
  IN Unless(RefusedWhole(a, <<"cpu", "word">>), todo)

\* The words of a message: the pointer, whether to write and a bit that is always
\* set; and the value.
SendWord(ptr, write, val) == [hi |-> (ptr - (ptr % 4)) + 2 * write + 1, lo |-> val]
RemoteSend(cpu, ptr, write, val) ==
  <<[op |-> "send", to |-> cpu, msg |-> SendWord(ptr, write, val)]>>

CmdRemote(a) ==
  LET sub == SubSeq(a, 3, Len(a))
      todo == CASE a[2] = "read" ->
                     Unless(RefusedWhole(sub, <<"aligned">>), RemoteSend(CpuOf(a[1]), Hex[sub[1]], 0, 0))
                [] a[2] = "write" ->
                     Unless(RefusedWhole(sub, <<"aligned", "hex">>),
                            RemoteSend(CpuOf(a[1]), Hex[sub[1]], 1, Hex[sub[2]]))
                [] OTHER -> Unknown
  IN CASE Refused(a, <<"cpu">>) # <<>> -> Refused(a, <<"cpu">>)
       [] Refused(a, <<"cpu">>) = <<>> /\ CpuOf(a[1]) = 0 -> Say("cannot send remote cmd to bsp")
       [] OTHER -> Unless(Refused(a, <<"cpu", "word">>), todo)

\* vec_num is `block << 2 | lane', of which an unsigned has no more than it has room
\* for: 40000000 is block 0.  Components are given last to first.
GfxData(a) ==
  [op |-> "gfxdata", vec |-> (4 * Hex[a[1]] + LaneOf(a[2])) % Word,
   data |-> [i \in 0 .. 3 |-> Half16[a[6 - i]]], words |-> [i \in 0 .. 3 |-> a[6 - i]]]

CmdGfx(a) ==
  LET sub == Tail(a)
      alone(ops) == Unless(RefusedWhole(sub, <<>>), ops)
      color == Hex[sub[1]]
  IN IF a = <<>> THEN Say("unexpected end-of-input")
     ELSE CASE a[1] = "swap"  -> alone(<<[op |-> "gfxswap"]>>)
            [] a[1] = "draw"  -> alone(<<[op |-> "gfxdraw"]>>)
            [] a[1] = "clear" -> alone(<<[op |-> "gfxclear"]>>)
            [] a[1] = "data"  ->
                 Unless(RefusedWhole(sub, <<"hex", "lane", "fp16", "fp16", "fp16", "fp16">>),
                        <<GfxData(sub)>>)
            [] a[1] = "bg"    ->
                 Unless(RefusedWhole(sub, <<"hex">>),
                        IF color >= Word \div 256 THEN Say("bad color")
                                                   ELSE <<[op |-> "gfxbg", color |-> color]>>)
            [] OTHER -> Unknown

\* The body of bsp_main's loop.
Command(line) ==
  LET a == Tail(line)
  IN IF line = <<>> THEN <<>>
     ELSE CASE line[1] = "run"    -> CmdRun(a)
            [] line[1] = "halt"   -> CmdHalt(a)
            [] line[1] = "read"   -> CmdRead(a)
            [] line[1] = "write"  -> CmdWrite(a)
            [] line[1] = "cache"  -> CmdCache(a)
            [] line[1] = "perf"   -> CmdPerf(a)
            [] line[1] = "remote" -> CmdRemote(a)
            [] line[1] = "gfx"    -> CmdGfx(a)
            [] OTHER -> Unknown
=============================================================================
