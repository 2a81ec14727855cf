------------------------------- MODULE Session -------------------------------
(****************************************************************************)
(* A session: one ParamExtractor with its InstructionCache                  *)
(* (core/insn_cache.py), the resolver's own caches of functions and flow    *)
(* charts (core/engine_backward.py), and the locator registry               *)
(* (locators/base.py), over a database that IDA and its user change between *)
(* the calls.  The calls modelled step by step are extract_calls with push  *)
(* arguments, and register queries (which instructions the walk reads; what *)
(* it makes of them is BackwardResolver's).                                 *)
(*                                                                          *)
(* A database is [code, refs, owner, chart]: the true instruction at every  *)
(* head, the code references to every callee, the function that owns every  *)
(* address, and the flow chart of every function.  A locator is [name,      *)
(* priority, matches, broken, raises]: the mnemonics its matches accepts,   *)
(* and those its matches and its extract raise on.                          *)
(****************************************************************************)
EXTENDS OperandDecode

CONSTANTS
    Worlds,          \* see IsWorld
    Heads,           \* addresses of instructions
    Callee,          \* functions whose call sites are asked for
    NoFunc,          \* no function (None)
    MaxEntries,      \* max_entries of the cache
    MaxBlocks,       \* max_blocks of the resolver's budget
    MaxEdits,        \* bound on the changes of the database
    BuiltIn          \* the locators of default_registry(), in their order

AnyLocator == [name : STRING, priority : Int, matches : SUBSET STRING,
               broken : SUBSET STRING, raises : SUBSET STRING]

\* What IDA can hold: calls are made from heads, blocks begin and end somewhere.
IsDatabase(d) ==
    /\ DOMAIN d.code \subseteq Heads /\ \A ea \in DOMAIN d.code : IsEncodable(d.code[ea])
    /\ d.refs \in [Callee -> SUBSET Heads]
    /\ DOMAIN d.chart \subseteq Nat /\ NoFunc \notin DOMAIN d.chart
    /\ \A f \in DOMAIN d.chart : \A b \in DOMAIN d.chart[f] : b \in Nat /\ d.chart[f][b] \in Nat
    /\ d.owner \in [Heads -> DOMAIN d.chart \cup {NoFunc}]

\* The databases a world moves between, the locators its user may register, and
\* the callees and addresses its user asks about.
IsWorld(w) ==
    /\ w.callees \subseteq Callee /\ w.queries \subseteq Heads /\ w.locators \subseteq AnyLocator
    /\ \A d \in w.dbs : IsDatabase(d)
    /\ \A d, d2 \in w.dbs : DOMAIN d.chart = DOMAIN d2.chart

ASSUME SessionAssumption ==
    /\ Heads \subseteq Nat \ {0} /\ Heads # {} /\ MaxEntries \in Nat
    /\ MaxBlocks \in Nat /\ MaxEdits \in Nat
    /\ \A w \in Worlds : IsWorld(w)
    /\ BuiltIn \in Seq(AnyLocator)
    /\ \A m, n \in DOMAIN BuiltIn : m < n => BuiltIn[m].priority >= BuiltIn[n].priority

VARIABLES
    world, db,       \* the environment, and its present database
    edits,
    insns, xrefs,    \* the two LRU maps: sequences of [key, value], oldest first
    funcs, charts,   \* _func_cache, _cfg_cache: functions of the keys seen
    registry,        \* the locators, in the order they are tried
    registered,      \* history: in the order they were registered
    pc,              \* "idle", "site", "scan", "interpret" or "walk"
    todo,            \* the call sites still to be extracted
    scan,            \* [call, func, at, pushes, skipped]: collect_push_sequence, or a walk:
                     \* skipped counts its blocks, func is where its block begins
    named,           \* the locator of each push interpreted for this site
    reply,           \* history: the last answer of a cache, [key, value]
    seen,            \* history: what a key held since it was last dropped
    recent           \* history: keys of the two LRU maps by their last use

environment == <<world, edits, db>>
caches == <<insns, xrefs, funcs, charts, recent>>
locators == <<registry, registered>>
call == <<todo, scan, named>>
vars == <<environment, caches, locators, pc, call, reply, seen>>

NoScan == [call |-> -1, func |-> NoFunc, at |-> -1, pushes |-> <<>>, skipped |-> 0]
NoEa == -1

-----------------------------------------------------------------------------
\* What the port answers on database d.
Decode(d, ea) == IF ea \in DOMAIN d.code THEN DecodeAt(d.code[ea]) ELSE NoInsn

PrevHead(ea, func) ==
    LET before == {h \in DOMAIN db.code : func <= h /\ h < ea}
    IN  IF before = {} THEN NoEa ELSE Greatest(before)

\* Everything that can be asked of a database, and its true answers.
Keys(d) == ({"insn"} \X Heads) \cup ({"refs"} \X Callee) \cup ({"owner"} \X Heads)
             \cup ({"chart"} \X DOMAIN d.chart)
Content(d, k) ==
    CASE k[1] = "insn"  -> IF k[2] \in DOMAIN d.code THEN d.code[k[2]] ELSE NoInsn
      [] k[1] = "refs"  -> d.refs[k[2]]
      [] k[1] = "owner" -> d.owner[k[2]]
      [] k[1] = "chart" -> d.chart[k[2]]

-----------------------------------------------------------------------------
\* The OrderedDicts of InstructionCache.
KeysOf(cache) == {cache[n].key : n \in DOMAIN cache}
Dropped(cache, keys) == Picked(cache, {n \in DOMAIN cache : cache[n].key \notin keys})
Without(cache, key) == Dropped(cache, {key})
EntryOf(cache, key) == cache[CHOOSE n \in DOMAIN cache : cache[n].key = key]

\* Mutant of Lookup: a hit does not move to the end.
Lookup_InPlace(cache, key) == cache

\* _lookup of a key that is there.
Lookup(cache, key) == Append(Without(cache, key), EntryOf(cache, key))

\* Mutant of Store: the bound is checked before the entry is added.
Store_CheckBefore(cache, key, value) ==
    LET room == IF Len(cache) > MaxEntries THEN Tail(cache) ELSE cache
    IN  Append(Without(room, key), [key |-> key, value |-> value])

\* _store: the least recently used entry goes.
Store(cache, key, value) ==
    LET longer == Append(Without(cache, key), [key |-> key, value |-> value])
    IN  IF Len(longer) > MaxEntries THEN Tail(longer) ELSE longer

\* get and code_refs_to: the value found, and the cache afterwards.
Cached(cache, key, answer) ==
    IF key \in KeysOf(cache) THEN [value |-> EntryOf(cache, key).value, cache |-> Lookup(cache, key)]
    ELSE [value |-> answer, cache |-> Store(cache, key, answer)]

Forgotten(order, keys) == Picked(order, {n \in DOMAIN order : order[n] \notin keys})
Used(order, key) == Append(Forgotten(order, {key}), key)

\* Reading an instruction through the cache.
GetInsn(ea) == Cached(insns, ea, Decode(db, ea))
ReadInsn(ea) ==
    /\ insns' = GetInsn(ea).cache
    /\ recent' = [recent EXCEPT !.insns = Used(@, ea)]
    /\ reply' = [key |-> <<"insn", ea>>, value |-> GetInsn(ea).value]
    /\ UNCHANGED <<xrefs, charts>>

\* CfgModel.block_containing: a chart maps the start of every block to its end.
BlocksAround(chart, ea) == {b \in DOMAIN chart : b <= ea /\ ea < chart[b]}

\* _func_ea_for and _cfg_for: a function of the keys asked so far.
Memo(f, key, answer) ==
    [k \in DOMAIN f \cup {key} |-> IF k \in DOMAIN f THEN f[k] ELSE answer]

-----------------------------------------------------------------------------
Init ==
    /\ world \in Worlds /\ db \in world.dbs /\ edits = 0
    /\ insns = <<>> /\ xrefs = <<>> /\ funcs = <<>> /\ charts = <<>>
    /\ registry = BuiltIn /\ registered = BuiltIn
    /\ pc = "idle" /\ todo = {} /\ scan = NoScan /\ named = <<>>
    /\ seen = [k \in Keys(db) |-> {Content(db, k)}]
    /\ reply = [key |-> <<"owner", Least(Heads)>>, value |-> db.owner[Least(Heads)]]
    /\ recent = [insns |-> <<>>, xrefs |-> <<>>]

\* IDA, or its user, changes the database.
Edit ==
    /\ pc = "idle" /\ edits < MaxEdits
    /\ \E d \in world.dbs \ {db} : db' = d
    /\ edits' = edits + 1 /\ scan' = NoScan /\ named' = <<>>
    /\ seen' = [k \in Keys(db) |-> seen[k] \cup {Content(db', k)}]
    /\ UNCHANGED <<world, caches, locators, pc, todo, reply>>

\* Mutant of Drop: only the decoded instruction is dropped.
Drop_InsnsOnly(keys) ==
    /\ insns' = Dropped(insns, keys)
    /\ xrefs' = xrefs

Drop(keys) ==
    /\ insns' = Dropped(insns, keys)
    /\ xrefs' = Dropped(xrefs, keys)

\* invalidate(ea) for one address, invalidate(None) for all of them.
Invalidate ==
    /\ pc = "idle"
    /\ \E keys \in {{ea} : ea \in Heads \cup Callee} \cup {Heads \cup Callee} :
          /\ Drop(keys)
          /\ recent' = [cache \in DOMAIN recent |-> Forgotten(recent[cache], keys)]
          /\ seen' = [k \in DOMAIN seen |->
                        IF k[1] \in {"insn", "refs"} /\ k[2] \in keys THEN {Content(db, k)}
                        ELSE seen[k]]
    /\ scan' = NoScan /\ named' = <<>>
    /\ UNCHANGED <<environment, funcs, charts, locators, pc, todo, reply>>

-----------------------------------------------------------------------------
\* Mutant of Register: a later registration comes first among equals.
Register_Front(locator) ==
    LET below == {n \in DOMAIN registry : registry[n].priority <= locator.priority}
        at    == IF below = {} THEN Len(registry) + 1 ELSE Least(below)
    IN  registry' = InsertAt(registry, at, locator)

\* LocatorRegistry.register: a stable sort by descending priority.
Register(locator) ==
    LET below == {n \in DOMAIN registry : registry[n].priority < locator.priority}
        at    == IF below = {} THEN Len(registry) + 1 ELSE Least(below)
    IN  registry' = InsertAt(registry, at, locator)

\* The user registers a locator between two calls.
UserRegisters ==
    /\ pc = "idle"
    /\ \E locator \in world.locators \ ToSet(registry) :
          Register(locator) /\ registered' = Append(registered, locator)
    /\ scan' = NoScan /\ named' = <<>>
    /\ UNCHANGED <<environment, caches, pc, todo, reply, seen>>

NoLocator == [name |-> "none", priority |-> 0, matches |-> {}, broken |-> {}, raises |-> {}]

Accepts(locator, mnem) == mnem \in locator.matches \ locator.broken

\* LocatorRegistry.match: a locator whose matches raises is passed over.
FirstMatch(mnem) ==
    LET fit == {n \in DOMAIN registry : Accepts(registry[n], mnem)}
    IN  IF fit = {} THEN NoLocator ELSE registry[Least(fit)]

\* _resolve_at_instruction_impl and _interpret_definition: which locator's value
\* is the answer, "raised" (UNSUPPORTED_OPERAND_SHAPE), "none"
\* (UNSUPPORTED_INSTRUCTION), or "missing" (NO_DEFINITION_FOUND).
Outcome(insn) ==
    LET locator == FirstMatch(insn.mnem)
    IN  CASE insn = NoInsn -> "missing"
          [] insn # NoInsn /\ insn.mnem \in locator.raises -> "raised"
          [] insn # NoInsn /\ insn.mnem \notin locator.raises -> locator.name

-----------------------------------------------------------------------------
\* extract_calls: the call sites, through the cache.
ExtractCalls ==
    /\ pc = "idle"
    /\ \E callee \in world.callees :
          LET refs == Cached(xrefs, callee, db.refs[callee])
          IN  /\ xrefs' = refs.cache
              /\ todo' = refs.value
              /\ reply' = [key |-> <<"refs", callee>>, value |-> refs.value]
              /\ recent' = [recent EXCEPT !.xrefs = Used(@, callee)]
    /\ pc' = "site" /\ scan' = NoScan /\ named' = <<>>
    /\ UNCHANGED <<environment, insns, funcs, charts, locators, seen>>

\* collect_push_sequence up to its loop.
BeginScan ==
    /\ pc = "site" /\ todo # {}
    /\ LET ea == Least(todo)
       IN  /\ todo' = todo \ {ea}
           /\ funcs' = Memo(funcs, ea, db.owner[ea])
           /\ reply' = [key |-> <<"owner", ea>>, value |-> funcs'[ea]]
           /\ scan' = [call |-> ea, func |-> funcs'[ea], pushes |-> <<>>, skipped |-> 0,
                       at |-> IF funcs'[ea] = NoFunc THEN NoEa ELSE PrevHead(ea, funcs'[ea])]
    /\ pc' = "scan" /\ named' = <<>>
    /\ UNCHANGED <<environment, insns, xrefs, charts, recent, locators, seen>>

MayScan == scan.at # NoEa /\ Len(scan.pushes) < MaxPushes /\ scan.skipped < MaxSkips

\* Mutant of ScanStep: a skipped instruction is looked at again.
ScanStep_Stuck ==
    /\ pc = "scan" /\ MayScan
    /\ LET insn == GetInsn(scan.at).value
           back == PrevHead(scan.at, scan.func)
       IN  scan' = CASE ~GoesOn(insn) -> [scan EXCEPT !.at = NoEa]
                     [] IsPush(insn)  -> [scan EXCEPT !.at = back, !.pushes = <<scan.at>> \o @]
                     [] OTHER         -> scan
    /\ ReadInsn(scan.at)
    /\ UNCHANGED <<environment, locators, pc, todo, named, seen, funcs>>

\* One round of the loop.  The list is built in its final order.
ScanStep ==
    /\ pc = "scan" /\ MayScan
    /\ LET insn == GetInsn(scan.at).value
           back == PrevHead(scan.at, scan.func)
       IN  scan' = CASE ~GoesOn(insn) -> [scan EXCEPT !.at = NoEa]
                     [] IsPush(insn)  -> [scan EXCEPT !.at = back, !.pushes = <<scan.at>> \o @]
                     [] OTHER         -> [scan EXCEPT !.at = back, !.skipped = @ + 1]
    /\ ReadInsn(scan.at)
    /\ UNCHANGED <<environment, locators, pc, todo, named, seen, funcs>>

EndScan ==
    /\ pc = "scan" /\ ~MayScan /\ pc' = "interpret"
    /\ UNCHANGED <<environment, caches, locators, call, reply, seen>>

\* resolve_at_instruction on the next push: it is read again, and whatever is
\* there now is interpreted.
Interpret ==
    /\ pc = "interpret" /\ Len(named) < Len(scan.pushes)
    /\ LET ea == scan.pushes[Len(named) + 1]
           insn == GetInsn(ea).value
       IN  /\ ReadInsn(ea)
           /\ funcs' = IF insn = NoInsn THEN funcs ELSE Memo(funcs, ea, db.owner[ea])
           /\ named' = Append(named, Outcome(insn))
    /\ UNCHANGED <<environment, locators, pc, todo, scan, seen>>

EndSite ==
    /\ pc = "interpret" /\ Len(named) = Len(scan.pushes) /\ pc' = "site"
    /\ UNCHANGED <<environment, caches, locators, call, reply, seen>>

Return ==
    /\ pc = "site" /\ todo = {} /\ pc' = "idle"
    /\ UNCHANGED <<environment, caches, locators, call, reply, seen>>

\* The start of a register query: which function, which block, from the caches.
BeginQuery ==
    /\ pc = "idle"
    /\ \E ea \in world.queries :
          LET func == Memo(funcs, ea, db.owner[ea])[ea]
          IN  /\ funcs' = Memo(funcs, ea, db.owner[ea])
              /\ IF func = NoFunc
                   THEN /\ reply' = [key |-> <<"owner", ea>>, value |-> func]
                        /\ scan' = NoScan
                        /\ UNCHANGED <<charts, pc>>
                   ELSE /\ charts' = Memo(charts, func, db.chart[func])
                        /\ reply' = [key |-> <<"chart", func>>, value |-> charts'[func]]
                        /\ LET around == BlocksAround(charts'[func], ea)
                               start  == IF around = {} THEN func ELSE Least(around)
                           IN  scan' = [NoScan EXCEPT !.call = ea, !.func = start,
                                                      !.at = PrevHead(ea, start)]
                        /\ pc' = "walk"
    /\ named' = <<>>
    /\ UNCHANGED <<environment, insns, xrefs, recent, locators, todo, seen>>

\* One instruction of a block, or of the linear walk; it may define the
\* register, which ends the walk.
WalkStep ==
    /\ pc = "walk" /\ scan.at # NoEa
    /\ ReadInsn(scan.at)
    /\ \/ scan' = [scan EXCEPT !.at = PrevHead(scan.at, scan.func)] /\ pc' = "walk"
       \/ GetInsn(scan.at).value # NoInsn /\ scan' = NoScan /\ pc' = "idle"
    /\ UNCHANGED <<environment, funcs, locators, todo, named, seen>>

\* The walk goes on in another block of the chart, while its budget lasts.
EnterBlock ==
    /\ pc = "walk" /\ scan.at = NoEa /\ scan.skipped < MaxBlocks
    /\ LET chart == charts[funcs[scan.call]]
       IN  /\ BlocksAround(chart, scan.call) # {}
           /\ \E b \in DOMAIN chart :
                 scan' = [scan EXCEPT !.func = b, !.at = PrevHead(chart[b], b), !.skipped = @ + 1]
    /\ UNCHANGED <<environment, caches, locators, pc, todo, named, reply, seen>>

\* Nothing more to read, or the budget is used up.
EndQuery ==
    /\ pc = "walk"
    /\ pc' = "idle" /\ scan' = NoScan
    /\ UNCHANGED <<environment, caches, locators, todo, named, reply, seen>>

Internal == BeginScan \/ ScanStep \/ EndScan \/ Interpret \/ EndSite \/ Return
            \/ WalkStep \/ EnterBlock \/ EndQuery

Next == Edit \/ Invalidate \/ UserRegisters \/ ExtractCalls \/ BeginQuery \/ Internal

\* A call that has begun takes its steps.
Spec == Init /\ [][Next]_vars /\ WF_vars(Internal)

-----------------------------------------------------------------------------
\* Every variable holds what the code can put there.
TypeOK ==
    /\ db \in world.dbs /\ edits \in 0..MaxEdits
    /\ KeysOf(insns) \subseteq Heads /\ KeysOf(xrefs) \subseteq Callee
    /\ Len(insns) \in 0..MaxEntries /\ Len(xrefs) \in 0..MaxEntries
    /\ DOMAIN funcs \subseteq Heads /\ DOMAIN charts \subseteq DOMAIN db.chart
    /\ pc \in {"idle", "site", "scan", "interpret", "walk"}
    /\ todo \subseteq Heads /\ scan.call \in Heads \cup {NoEa}
    /\ scan.skipped \in 0..(IF pc = "walk" THEN MaxBlocks ELSE MaxSkips) /\ Len(scan.pushes) \in 0..MaxPushes
    /\ Len(named) <= Len(scan.pushes)
    /\ Len(registry) = Len(registered)

\* Each cache keeps exactly one entry per key, and of the keys used since they
\* were dropped it keeps the most recently used ones (insn_cache.py:52-67,
\* "a bounded LRU").
IsRecentPart(cache, order) ==
    /\ Len(cache) <= Len(order)
    /\ \A n \in DOMAIN cache : cache[n].key = order[Len(order) - Len(cache) + n]
KeepsRecent == IsRecentPart(insns, recent.insns) /\ IsRecentPart(xrefs, recent.xrefs)

\* Every cached instruction is, operand by operand, one the program had at its
\* address since the address was dropped: the SIB and REX bits name the base
\* and the index register, displacements have their sign and immediates their
\* width, and an eviction and reload changes nothing.
CachedIsTrue ==
    /\ \A n \in DOMAIN insns : insns[n].value \in seen[<<"insn", insns[n].key>>]
    /\ \A n \in DOMAIN xrefs : xrefs[n].value \in seen[<<"refs", xrefs[n].key>>]

\* Nothing the session may have cached differs from the database.
Fresh == \A k \in DOMAIN seen : seen[k] = {Content(db, k)}

\* The caller of PushSequence in front of a call of the present database.
HeadsBefore(ea) == Ascending({h \in DOMAIN db.code : db.owner[ea] <= h}, ea - 1)
CallerOf(ea) ==
    IF db.owner[ea] = NoFunc THEN [code |-> <<>>, owned |-> FALSE]
    ELSE [code |-> [n \in DOMAIN HeadsBefore(ea) |-> db.code[HeadsBefore(ea)[n]]], owned |-> TRUE]

\* In a database that has not changed, or whose changes were all followed by
\* invalidate, the loop finds the push sequence of the program itself, through
\* cached, evicted and reloaded, encoded and decoded instructions alike.
FreshScanIsRight ==
    (Fresh /\ pc = "interpret")
      => LET heads  == HeadsBefore(scan.call)
             pushes == PushSequence(CallerOf(scan.call))
         IN  scan.pushes = [n \in DOMAIN pushes |-> heads[pushes[n]]]

\* A push is interpreted by the locator of the highest priority that accepts
\* it, the first registered among equals, however registrations came and
\* whatever the others raise.
Preferred(a, b) ==
    \/ registered[a].priority > registered[b].priority
    \/ registered[a].priority = registered[b].priority /\ a <= b
BestLocatorAnswers ==
    Fresh => \A n \in DOMAIN named :
       LET fit  == {k \in DOMAIN registered : Accepts(registered[k], "push")}
           best == registered[CHOOSE k \in fit : \A o \in fit : Preferred(k, o)]
       IN  named[n] = (IF fit = {} THEN "none"
                       ELSE IF "push" \in best.raises THEN "raised" ELSE best.name)

\* The session answers as StaleReads promises, to every single read.
Promise == INSTANCE StaleReads WITH
    current <- [k \in Keys(db) |-> Content(db, k)],
    allowed <- seen
StaleWithinBounds == Promise!Spec

\* Every call returns, however the caches stand.
CallsReturn == (pc # "idle") ~> (pc = "idle")

=============================================================================
